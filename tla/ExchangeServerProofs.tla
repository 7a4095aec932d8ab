------------------------ MODULE ExchangeServerProofs ------------------------
(* Proofs about ExchangeServer for every set of clients, every number of   *)
(* frames and every capacity of the two rings.                             *)
EXTENDS ExchangeServer, TLAPS

(* What stands at a place of a sequence.                                   *)
LEMMA SeqElement ==
    ASSUME NEW S, NEW s \in Seq(S), NEW i \in 1..Len(s)
    PROVE  s[i] \in S
OBVIOUS

(* The empty sequence, and a sequence that is not empty.                   *)
LEMMA SeqEmpty ==
    ASSUME NEW S
    PROVE  <<>> \in Seq(S) /\ Len(<<>>) = 0 /\ \A s \in Seq(S) : s # <<>> => Len(s) \in Nat \ {0}
OBVIOUS

(* A sequence is a function on its places.                                 *)
LEMMA SeqLength ==
    ASSUME NEW S, NEW s \in Seq(S)
    PROVE  Len(s) \in Nat /\ DOMAIN s = 1..Len(s) /\ s \in [1..Len(s) -> S]
<1>1. Len(s) \in Nat
  OBVIOUS
<1>2. DOMAIN s = 1..Len(s)
  OBVIOUS
<1>3. s \in [1..Len(s) -> S]
  OBVIOUS
<1> QED BY ONLY Zenon, <1>1, <1>2, <1>3

(* Sequences of the same length and elements are the same.                 *)
LEMMA SeqSame ==
    ASSUME NEW S, NEW s \in Seq(S), NEW t \in Seq(S),
           Len(s) = Len(t), \A k \in 1..Len(s) : s[k] = t[k]
    PROVE  s = t
OBVIOUS

(* The front of a sequence and what follows it.                            *)
LEMMA SeqHeadTail ==
    ASSUME NEW S, NEW s \in Seq(S), s # <<>>
    PROVE  /\ Head(s) \in S /\ Tail(s) \in Seq(S) /\ Len(Tail(s)) = Len(s) - 1
           /\ \A i \in 1..Len(Tail(s)) : Tail(s)[i] = s[i + 1]
<1>1. Head(s) \in S
  OBVIOUS
<1>2. Tail(s) \in Seq(S)
  OBVIOUS
<1>3. Len(Tail(s)) = Len(s) - 1
  OBVIOUS
<1>4. \A i \in 1..Len(Tail(s)) : Tail(s)[i] = s[i + 1]
  OBVIOUS
<1> QED BY ONLY Zenon, <1>1, <1>2, <1>3, <1>4

(* A sequence with one more element.                                       *)
LEMMA SeqAppend ==
    ASSUME NEW S, NEW s \in Seq(S), NEW e \in S
    PROVE  /\ Append(s, e) \in Seq(S) /\ Append(s, e) # <<>> /\ Len(Append(s, e)) = Len(s) + 1
           /\ \A i \in 1..Len(s) : Append(s, e)[i] = s[i]
           /\ Append(s, e)[Len(s) + 1] = e
<1>1. Append(s, e) \in Seq(S) /\ Len(Append(s, e)) = Len(s) + 1
  OBVIOUS
<1>2. Append(s, e) # <<>>
  <2>1. Len(s) + 1 # 0 /\ Len(<<>>) = 0
    OBVIOUS
  <2> QED BY ONLY Zenon, <1>1, <2>1
<1>3. \A i \in 1..Len(s) : Append(s, e)[i] = s[i]
  OBVIOUS
<1>4. Append(s, e)[Len(s) + 1] = e
  OBVIOUS
<1> QED BY ONLY Zenon, <1>1, <1>2, <1>3, <1>4

(* What the concatenation of two sequences holds.                          *)
LEMMA Joined ==
    ASSUME NEW S, NEW s \in Seq(S), NEW t \in Seq(S)
    PROVE  /\ s \o t \in Seq(S) /\ Len(s \o t) = Len(s) + Len(t)
           /\ \A k \in 1..(Len(s) + Len(t)) :
                 (s \o t)[k] = IF k <= Len(s) THEN s[k] ELSE t[k - Len(s)]
<1>1. s \o t \in Seq(S)
  OBVIOUS
<1>2. Len(s \o t) = Len(s) + Len(t) /\ Len(s) \in Nat /\ Len(t) \in Nat
  OBVIOUS
<1>3. \A k \in 1..Len(s) : (s \o t)[k] = s[k]
  OBVIOUS
<1>4. ASSUME NEW k \in 1..(Len(s) + Len(t)), ~(k <= Len(s)) PROVE (s \o t)[k] = t[k - Len(s)]
  BY <1>2, <1>4
<1> QED BY <1>1, <1>2, <1>3, <1>4

(* Nothing before or after a sequence.                                     *)
LEMMA JoinedNothing ==
    ASSUME NEW S, NEW s \in Seq(S)
    PROVE  s \o <<>> = s /\ <<>> \o s = s
<1>1. s \o <<>> = s
  OBVIOUS
<1>2. <<>> \o s = s
  OBVIOUS
<1> QED BY ONLY Zenon, <1>1, <1>2

(* To append is to join a sequence of one element.                         *)
LEMMA SeqAppendIs ==
    ASSUME NEW S, NEW s \in Seq(S), NEW e \in S
    PROVE  Append(s, e) = s \o <<e>>
<1> DEFINE t == <<e>>
<1>1. t \in Seq(S) /\ Len(t) = 1 /\ t[1] = e
  OBVIOUS
<1> HIDE DEF t
<1>2. /\ s \o t \in Seq(S) /\ Len(s \o t) = Len(s) + 1 /\ Len(s) \in Nat
      /\ \A k \in 1..(Len(s) + 1) : (s \o t)[k] = IF k <= Len(s) THEN s[k] ELSE t[k - Len(s)]
  <2>1. /\ s \o t \in Seq(S) /\ Len(s \o t) = Len(s) + Len(t)
        /\ \A k \in 1..(Len(s) + Len(t)) :
              (s \o t)[k] = IF k <= Len(s) THEN s[k] ELSE t[k - Len(s)]
    BY ONLY Zenon, <1>1, s \in Seq(S), Joined
  <2>2. Len(s) \in Nat
    OBVIOUS
  <2> QED BY ONLY <1>1, <2>1, <2>2
<1>3. \A k \in 1..(Len(s) + 1) : (s \o t)[k] = Append(s, e)[k]
  BY <1>1, <1>2, SeqAppend
<1>4. Append(s, e) \in Seq(S) /\ Len(Append(s, e)) = Len(s) + 1
  BY SeqAppend
<1> QED BY <1>2, <1>3, <1>4, SeqSame DEF t

(* Three sequences joined.                                                 *)
LEMMA JoinedTwice ==
    ASSUME NEW S, NEW s \in Seq(S), NEW t \in Seq(S), NEW u \in Seq(S)
    PROVE  (s \o t) \o u = s \o (t \o u)
OBVIOUS

-----------------------------------------------------------------------------
(* The rings and the popped command are one queue.                         *)

(* A command that the engine thread pops stays in its place.               *)
LEMMA PoppedInPlace ==
    ASSUME NEW S, NEW a \in Seq(S), NEW b \in Seq(S), b # <<>>
    PROVE  a \o <<>> \o b = a \o <<Head(b)>> \o Tail(b)
<1>1. Head(b) \in S /\ Tail(b) \in Seq(S) /\ Len(Tail(b)) = Len(b) - 1
      /\ \A i \in 1..(Len(b) - 1) : Tail(b)[i] = b[i + 1]
  BY SeqHeadTail
<1>2. a \o <<>> = a
  BY JoinedNothing
<1> DEFINE m == a \o <<Head(b)>>
<1>3. m \in Seq(S) /\ Len(m) = Len(a) + 1
      /\ \A i \in 1..(Len(a) + 1) : m[i] = IF i <= Len(a) THEN a[i] ELSE Head(b)
  BY <1>1, SeqAppend, SeqAppendIs
<1> HIDE DEF m
<1>4. b[1] = Head(b) /\ Len(b) \in Nat /\ Len(a) \in Nat
  BY <1>1
<1>5. m \o Tail(b) \in Seq(S) /\ Len(m \o Tail(b)) = Len(a) + Len(b)
      /\ \A i \in 1..(Len(a) + Len(b)) :
            (m \o Tail(b))[i] = IF i <= Len(a) + 1 THEN m[i] ELSE Tail(b)[i - (Len(a) + 1)]
  <2>1. /\ m \o Tail(b) \in Seq(S) /\ Len(m \o Tail(b)) = Len(m) + Len(Tail(b))
        /\ \A i \in 1..(Len(m) + Len(Tail(b))) :
              (m \o Tail(b))[i] = IF i <= Len(m) THEN m[i] ELSE Tail(b)[i - Len(m)]
    BY Zenon, <1>1, <1>3, Joined
  <2>2. Len(m) + Len(Tail(b)) = Len(a) + Len(b)
    BY <1>1, <1>3, <1>4
  <2> QED BY <1>3, <2>1, <2>2
<1>6. a \o b \in Seq(S) /\ Len(a \o b) = Len(a) + Len(b)
      /\ \A i \in 1..(Len(a) + Len(b)) :
            (a \o b)[i] = IF i <= Len(a) THEN a[i] ELSE b[i - Len(a)]
  BY Joined
<1>7. \A i \in 1..(Len(a) + Len(b)) : (a \o b)[i] = (m \o Tail(b))[i]
  BY <1>1, <1>3, <1>4, <1>5, <1>6
<1>8. a \o b = m \o Tail(b)
  BY <1>5, <1>6, <1>7, SeqSame
<1> QED BY <1>2, <1>8 DEF m

(* A response that is pushed stays in its place.                           *)
LEMMA PushedInPlace ==
    ASSUME NEW S, NEW a \in Seq(S), NEW b \in Seq(S), NEW e \in S
    PROVE  a \o <<e>> \o b = Append(a, e) \o <<>> \o b
<1>1. Append(a, e) = a \o <<e>> /\ Append(a, e) \in Seq(S)
  BY SeqAppendIs, SeqAppend
<1>2. Append(a, e) \o <<>> = Append(a, e)
  BY <1>1, JoinedNothing
<1> QED BY <1>1, <1>2

(* A command comes last.                                                   *)
LEMMA QueuedLast ==
    ASSUME NEW S, NEW a \in Seq(S), NEW b \in Seq(S), NEW e \in S
    PROVE  a \o Append(b, e) = Append(a \o b, e)
<1>1. Append(b, e) = b \o <<e>> /\ <<e>> \in Seq(S)
  BY SeqAppendIs
<1>2. a \o b \in Seq(S)
  BY Joined
<1>3. Append(a \o b, e) = (a \o b) \o <<e>>
  BY <1>2, SeqAppendIs
<1> QED BY <1>1, <1>3, JoinedTwice

(* The response that is drained came first.                                *)
LEMMA DrainedFirst ==
    ASSUME NEW S, NEW a \in Seq(S), NEW b \in Seq(S), a # <<>>
    PROVE  a \o b # <<>> /\ Head(a \o b) = Head(a) /\ Tail(a \o b) = Tail(a) \o b
<1>1. a \o b \in Seq(S) /\ Len(a \o b) = Len(a) + Len(b)
      /\ \A i \in 1..(Len(a) + Len(b)) :
            (a \o b)[i] = IF i <= Len(a) THEN a[i] ELSE b[i - Len(a)]
  BY Joined
<1>2. Len(a) \in Nat /\ Len(b) \in Nat /\ Len(a) >= 1
  BY SeqEmpty
<1>3. a \o b # <<>> /\ Head(a \o b) = Head(a)
  BY <1>1, <1>2
<1>4. Tail(a) \in Seq(S) /\ Len(Tail(a)) = Len(a) - 1
      /\ \A i \in 1..(Len(a) - 1) : Tail(a)[i] = a[i + 1]
  BY SeqHeadTail
<1>5. Tail(a \o b) \in Seq(S) /\ Len(Tail(a \o b)) = Len(a) + Len(b) - 1
      /\ \A i \in 1..(Len(a) + Len(b) - 1) : Tail(a \o b)[i] = (a \o b)[i + 1]
  BY <1>1, <1>3, SeqHeadTail
<1>6. Tail(a) \o b \in Seq(S) /\ Len(Tail(a) \o b) = Len(a) + Len(b) - 1
      /\ \A i \in 1..(Len(a) + Len(b) - 1) :
            (Tail(a) \o b)[i] = IF i <= Len(a) - 1 THEN Tail(a)[i] ELSE b[i - (Len(a) - 1)]
  BY <1>2, <1>4, Joined
<1>7. \A i \in 1..(Len(a) + Len(b) - 1) : Tail(a \o b)[i] = (Tail(a) \o b)[i]
  BY <1>1, <1>2, <1>4, <1>5, <1>6
<1>8. Tail(a \o b) = Tail(a) \o b
  BY <1>5, <1>6, <1>7, SeqSame
<1> QED BY <1>3, <1>8

-----------------------------------------------------------------------------
(* Where the I/O thread is and what it holds.                              *)

(* A socket that is still to be read has frames, a batch is handled to its *)
(* end before the next epoll_wait, and handle_read goes no further than    *)
(* what it appended to read_buffer.                                        *)
Places ==
    /\ io \in {"top", "wait"} => batch = {}
    /\ \A c \in batch \ {Eventfd} : read[c] < sent[c]
    /\ io = "read" => /\ current[1] \notin batch \ {Eventfd}
                      /\ read[current[1]] <= current[2] /\ current[2] <= sent[current[1]]

(* At first no thread holds anything.                                      *)
LEMMA PlacesStart == Init => TypeOK /\ Places
<1> SUFFICES ASSUME Init PROVE TypeOK /\ Places
  OBVIOUS
<1>1. /\ sent \in [Clients -> 0..MaxFrames] /\ read \in [Clients -> 0..MaxFrames]
      /\ \A c \in Clients : read[c] <= sent[c]
  BY BoundsAssumption DEF Init
<1>2. replies \in [Clients -> Seq([frame : 1..MaxFrames, kind : {"error", "busy", "response"}])]
      /\ inbound \in Seq(Frame) /\ outbound \in Seq(Frame)
  BY DEF Init
<1>3. Places
  BY DEF Init, Places
<1> QED BY Zenon, <1>1, <1>2, <1>3 DEF Init, TypeOK

(* A reply is one more for its client.                                     *)
LEMMA ReplyTyped ==
    ASSUME TypeOK, NEW c \in Clients, NEW n \in 1..MaxFrames,
           NEW kind \in {"error", "busy", "response"}, Reply(c, n, kind)
    PROVE  replies' \in [Clients -> Seq([frame : 1..MaxFrames,
                                        kind : {"error", "busy", "response"}])]
<1> DEFINE R == [frame : 1..MaxFrames, kind : {"error", "busy", "response"}]
           r == [frame |-> n, kind |-> kind]
<1>1. r \in R
  OBVIOUS
<1>2. replies \in [Clients -> Seq(R)] /\ replies' = [replies EXCEPT ![c] = Append(replies[c], r)]
  BY Zenon DEF TypeOK, Reply
<1> HIDE DEF R, r
<1>3. Append(replies[c], r) \in Seq(R)
  BY <1>1, <1>2, SeqAppend
<1>4. replies' \in [Clients -> Seq(R)]
  BY <1>2, <1>3
<1> QED BY Zenon, <1>4 DEF R

(* The steps of the clients and of the signal.                             *)
LEMMA PlacesOutside ==
    ASSUME TypeOK, Places, (\E c \in Clients : ClientSends(c)) \/ Signal
    PROVE  TypeOK' /\ Places'
<1>1. ASSUME NEW c \in Clients, ClientSends(c) PROVE TypeOK' /\ Places'
  <2>1. sent' \in [Clients -> 0..MaxFrames] /\ \A d \in Clients : sent[d] <= sent'[d] /\ read[d] <= sent'[d]
    BY <1>1, BoundsAssumption DEF ClientSends, TypeOK
  <2>2. UNCHANGED <<ioVars, engineVars, inbound, outbound, efdEdge, gShutdown>>
    BY <1>1 DEF ClientSends
  <2>3. TypeOK'
    BY ZenonT(60), <2>1, <2>2 DEF TypeOK, ioVars, engineVars
  <2>4. \A d \in batch \ {Eventfd} : d \in Clients
    BY DEF TypeOK
  <2>5. io = "read" => current[1] \in Clients /\ current[2] \in 1..MaxFrames
    BY DEF TypeOK, Frame
  <2>6. Places'
    BY SMTT(60), <2>1, <2>2, <2>4, <2>5, BoundsAssumption DEF Places, TypeOK, ioVars, engineVars
  <2> QED BY <2>3, <2>6
<1>2. ASSUME Signal PROVE TypeOK' /\ Places'
  BY ZenonT(60), <1>2 DEF Signal, TypeOK, Places, clientVars, engineVars
<1> QED BY <1>1, <1>2

(* The steps of the engine thread: it touches nothing of the I/O thread's. *)
LEMMA PlacesEngine ==
    ASSUME TypeOK, Places, EngineStep
    PROVE  TypeOK' /\ Places'
<1>1. UNCHANGED <<sent, read, replies, io, batch, current, gShutdown>>
  BY DEF EngineStep, EngineTop, EnginePop, EngineIdle, EnginePush, FinalNotify,
         RequestShutdown, WakeForShutdown, Join, NotEngine, clientVars, ioVars
<1>2. Places'
  BY <1>1 DEF Places
<1>3. /\ inbound' \in Seq(Frame) /\ outbound' \in Seq(Frame)
      /\ IF engine' = "spin" THEN command' \in Frame ELSE command' = NoCommand
  <2>1. CASE EnginePop
    <3>1. inbound # <<>> => Head(inbound) \in Frame /\ Tail(inbound) \in Seq(Frame)
      BY SeqHeadTail DEF TypeOK
    <3> QED BY Zenon, <2>1, <3>1 DEF EnginePop, TypeOK
  <2>2. CASE EnginePush
    <3>1. command \in Frame => Append(outbound, command) \in Seq(Frame)
      BY SeqAppend DEF TypeOK
    <3> QED BY <2>2, <3>1 DEF EnginePush, TypeOK
  <2>3. CASE EngineTop \/ EngineIdle \/ FinalNotify \/ RequestShutdown \/ WakeForShutdown \/ Join
    BY <2>3 DEF EngineTop, EngineIdle, FinalNotify, RequestShutdown, WakeForShutdown, Join, TypeOK
  <2> QED BY <2>1, <2>2, <2>3 DEF EngineStep
<1>4. /\ efdEdge' \in BOOLEAN /\ pending' \in BOOLEAN /\ shutdownRequested' \in BOOLEAN
      /\ engine' \in {"top", "pop", "idle", "spin", "final", "request", "wake", "join", "done"}
  BY Zenon DEF EngineStep, EngineTop, EnginePop, EngineIdle, EnginePush, FinalNotify,
         RequestShutdown, WakeForShutdown, Join, TypeOK
<1>5. TypeOK'
  BY Zenon, <1>1, <1>3, <1>4 DEF TypeOK
<1> QED BY <1>2, <1>5

(* The steps of the I/O thread.                                            *)
LEMMA PlacesIo ==
    ASSUME TypeOK, Places, IoStep
    PROVE  TypeOK' /\ Places'
<1>1. ASSUME IoTop PROVE TypeOK' /\ Places'
  BY ZenonT(60), <1>1 DEF IoTop, TypeOK, Places, clientVars, engineVars
<1>2. ASSUME EpollWait PROVE TypeOK' /\ Places'
  <2>1. batch' \subseteq Clients \union {Eventfd} /\ \A c \in batch' \ {Eventfd} : read[c] < sent[c]
    BY <1>2, BoundsAssumption DEF EpollWait, TypeOK
  <2>2. io = "wait" /\ io' = "batch" /\ efdEdge' = FALSE
    BY <1>2 DEF EpollWait
  <2>3. UNCHANGED <<sent, read, replies, current, engine, command, pending, shutdownRequested,
                    inbound, outbound, gShutdown>>
    BY <1>2 DEF EpollWait, clientVars, engineVars
  <2> QED BY ZenonT(60), <2>1, <2>2, <2>3 DEF TypeOK, Places
<1>3. ASSUME NextEvent PROVE TypeOK' /\ Places'
  <2>1. UNCHANGED <<sent, read, replies, engine, command, pending, shutdownRequested,
                    inbound, outbound, gShutdown>>
    BY <1>3 DEF NextEvent, clientVars, engineVars
  <2>2. CASE batch = {} /\ io' = "top" /\ UNCHANGED <<batch, current, efdEdge>>
    BY ZenonT(60), <2>1, <2>2 DEF TypeOK, Places
  <2>3. CASE batch' = batch \ {Eventfd} /\ io' = "drain" /\ efdEdge' = FALSE /\ UNCHANGED current
    BY ZenonT(60), <2>1, <2>3 DEF TypeOK, Places
  <2>4. ASSUME NEW c \in batch \ {Eventfd}, batch' = batch \ {c}, io' = "read",
               current' = <<c, sent[c]>>, UNCHANGED efdEdge
        PROVE  TypeOK' /\ Places'
    <3>1. c \in Clients /\ read[c] < sent[c]
      BY <2>4 DEF TypeOK, Places
    <3>2. sent[c] \in 1..MaxFrames /\ read[c] <= sent[c]
      BY <3>1, BoundsAssumption DEF TypeOK
    <3>3. current' \in Frame /\ current'[1] = c /\ current'[2] = sent[c]
      BY <2>4, <3>1, <3>2 DEF Frame
    <3>4. sent[c] <= sent[c]
      BY <3>2, BoundsAssumption
    <3> QED BY ZenonT(60), <2>1, <2>4, <3>1, <3>2, <3>3, <3>4 DEF TypeOK, Places
  <2> QED BY Zenon, <1>3, <2>2, <2>3, <2>4 DEF NextEvent
<1>4. ASSUME HandleFrame PROVE TypeOK' /\ Places'
  <2> DEFINE c == current[1]
             n == read[c] + 1
  <2>1. c \in Clients /\ current[2] \in 1..MaxFrames /\ io = "read"
    BY <1>4 DEF HandleFrame, TypeOK, Frame
  <2>2. n \in 1..MaxFrames /\ n <= current[2] /\ n <= sent[c]
    <3>1. read[c] < current[2] /\ current[2] <= sent[c]
      BY Zenon, <1>4, <2>1 DEF HandleFrame, Places
    <3>2. read[c] \in 0..MaxFrames /\ sent[c] \in 0..MaxFrames
      BY Zenon, <2>1 DEF TypeOK
    <3> QED BY ONLY <2>1, <3>1, <3>2, BoundsAssumption
  <2>3. read' = [read EXCEPT ![c] = n]
    BY <1>4 DEF HandleFrame
  <2>4. UNCHANGED <<sent, io, batch, current, engine, command, pending, shutdownRequested,
                    outbound, efdEdge, gShutdown>>
    BY <1>4 DEF HandleFrame, clientVars, engineVars
  <2>5. \/ Reply(c, n, "error") /\ UNCHANGED inbound
        \/ inbound' = Append(inbound, <<c, n>>) /\ UNCHANGED replies
        \/ Reply(c, n, "busy") /\ UNCHANGED inbound
    BY <1>4 DEF HandleFrame
  <2> HIDE DEF c, n
  <2>6. replies' \in [Clients -> Seq([frame : 1..MaxFrames, kind : {"error", "busy", "response"}])]
    BY Zenon, <2>1, <2>2, <2>5, ReplyTyped DEF TypeOK
  <2>7. <<c, n>> \in Frame
    BY <2>1, <2>2 DEF Frame
  <2>8. inbound' \in Seq(Frame)
    <3>1. inbound \in Seq(Frame) /\ Append(inbound, <<c, n>>) \in Seq(Frame)
      BY <2>7, SeqAppend DEF TypeOK
    <3> QED BY Zenon, <2>5, <3>1
  <2>9. /\ read' \in [Clients -> 0..MaxFrames] /\ \A d \in Clients : read'[d] <= sent[d]
        /\ read'[c] = n /\ \A d \in Clients \ {c} : read'[d] = read[d]
    BY <2>1, <2>2, <2>3, BoundsAssumption DEF TypeOK
  <2>10. TypeOK'
    BY ZenonT(60), <2>4, <2>6, <2>8, <2>9 DEF TypeOK
  <2>11. \A d \in batch \ {Eventfd} : d \in Clients \ {c}
    BY <2>1 DEF TypeOK, Places, c
  <2>12. current[2] <= sent[c]
    BY <2>1 DEF Places, c
  <2>13. Places'
    BY Zenon, <2>1, <2>2, <2>4, <2>9, <2>11, <2>12 DEF Places, c
  <2> QED BY <2>10, <2>13
<1>5. ASSUME ReadDone PROVE TypeOK' /\ Places'
  BY ZenonT(60), <1>5 DEF ReadDone, TypeOK, Places, clientVars, engineVars
<1>6. ASSUME DrainOne PROVE TypeOK' /\ Places'
  <2>1. /\ outbound' \in Seq(Frame) /\ io' \in {"drain", "drained"}
        /\ replies' \in [Clients -> Seq([frame : 1..MaxFrames, kind : {"error", "busy", "response"}])]
    <3>1. CASE /\ outbound # <<>> /\ Reply(Head(outbound)[1], Head(outbound)[2], "response")
               /\ outbound' = Tail(outbound) /\ UNCHANGED io
      <4>1. Head(outbound) \in Frame /\ Tail(outbound) \in Seq(Frame)
        BY <3>1, SeqHeadTail DEF TypeOK
      <4>2. Head(outbound)[1] \in Clients /\ Head(outbound)[2] \in 1..MaxFrames
        BY <4>1 DEF Frame
      <4>3. replies' \in [Clients -> Seq([frame : 1..MaxFrames, kind : {"error", "busy", "response"}])]
        BY Zenon, <3>1, <4>2, ReplyTyped
      <4> QED BY Zenon, <1>6, <3>1, <4>1, <4>3 DEF DrainOne
    <3>2. CASE io' = "drained" /\ UNCHANGED <<replies, outbound>>
      BY Zenon, <3>2 DEF TypeOK
    <3> QED BY Zenon, <1>6, <3>1, <3>2 DEF DrainOne
  <2>2. io = "drain" /\ UNCHANGED <<sent, read, batch, current, engine, command, pending,
                                    shutdownRequested, inbound, efdEdge, gShutdown>>
    BY <1>6 DEF DrainOne, clientVars, engineVars
  <2> QED BY ZenonT(60), <2>1, <2>2 DEF TypeOK, Places
<1>7. ASSUME DrainDone PROVE TypeOK' /\ Places'
  BY ZenonT(60), <1>7 DEF DrainDone, TypeOK, Places, clientVars, engineVars
<1> QED BY <1>1, <1>2, <1>3, <1>4, <1>5, <1>6, <1>7 DEF IoStep

(* Every step keeps the types and places.                                  *)
LEMMA PlacesStep == TypeOK /\ Places /\ [Next]_vars => TypeOK' /\ Places'
<1>1. ASSUME TypeOK, Places, UNCHANGED vars PROVE TypeOK' /\ Places'
  BY ZenonT(60), <1>1 DEF TypeOK, Places, vars, clientVars, ioVars, engineVars
<1> QED BY <1>1, PlacesOutside, PlacesEngine, PlacesIo DEF Next, Terminated

-----------------------------------------------------------------------------
(* What a step does to the frames on their way and to the replies.         *)

Answers == [frame : 1..MaxFrames, kind : {"error", "busy", "response"}]

(* Nothing.                                                                *)
Rests == InFlight' = InFlight /\ replies' = replies /\ read' = read

(* The frame handler answers the next frame of c itself.                   *)
Refused(c) ==
    /\ read' = [read EXCEPT ![c] = read[c] + 1]
    /\ InFlight' = InFlight
    /\ Reply(c, read[c] + 1, "error") \/ Reply(c, read[c] + 1, "busy")

(* It sends the frame on its way.                                          *)
Queued(c) ==
    /\ read' = [read EXCEPT ![c] = read[c] + 1]
    /\ InFlight' = Append(InFlight, <<c, read[c] + 1>>)
    /\ replies' = replies

(* The oldest response reaches its client.                                 *)
Delivered ==
    /\ InFlight # <<>> /\ InFlight' = Tail(InFlight)
    /\ Reply(Head(InFlight)[1], Head(InFlight)[2], "response")
    /\ read' = read

(* The two rings and the popped command in one sequence.                   *)
LEMMA InFlightTyped == TypeOK => InFlight \in Seq(Frame)
<1> SUFFICES ASSUME TypeOK PROVE InFlight \in Seq(Frame)
  OBVIOUS
<1> DEFINE m == IF engine = "spin" THEN <<command>> ELSE <<>>
<1>1. m \in Seq(Frame) /\ outbound \in Seq(Frame) /\ inbound \in Seq(Frame)
  BY DEF TypeOK
<1> HIDE DEF m
<1>2. outbound \o m \in Seq(Frame)
  BY <1>1, Joined
<1>3. (outbound \o m) \o inbound \in Seq(Frame)
  BY <1>1, <1>2, Joined
<1> QED BY <1>3 DEF InFlight, m

(* The engine thread moves what it has popped and pushed, and the order    *)
(* stays.                                                                  *)
LEMMA EngineMoves ==
    ASSUME TypeOK, EngineStep
    PROVE  Rests
<1>1. UNCHANGED <<read, replies>>
  BY DEF EngineStep, EngineTop, EnginePop, EngineIdle, EnginePush, FinalNotify,
         RequestShutdown, WakeForShutdown, Join, NotEngine, ioVars
<1>2. inbound \in Seq(Frame) /\ outbound \in Seq(Frame)
  BY DEF TypeOK
<1>3. CASE EnginePop
  <2>1. CASE inbound # <<>>
    <3>1. InFlight = outbound \o <<>> \o inbound
      BY <1>3 DEF EnginePop, InFlight
    <3>2. InFlight' = outbound \o <<Head(inbound)>> \o Tail(inbound)
      BY Zenon, <1>3, <2>1 DEF EnginePop, InFlight
    <3>3. InFlight' = InFlight
      BY Zenon, <1>2, <2>1, <3>1, <3>2, PoppedInPlace
    <3> QED BY <1>1, <3>3 DEF Rests
  <2>2. CASE inbound = <<>>
    <3>1. InFlight' = InFlight
      BY Zenon, <1>3, <2>2 DEF EnginePop, InFlight
    <3> QED BY <1>1, <3>1 DEF Rests
  <2> QED BY <2>1, <2>2
<1>4. CASE EnginePush
  <2>1. command \in Frame
    BY <1>4 DEF EnginePush, TypeOK
  <2>2. InFlight = outbound \o <<command>> \o inbound
    BY <1>4 DEF EnginePush, InFlight
  <2>3. InFlight' = Append(outbound, command) \o <<>> \o inbound
    BY <1>4 DEF EnginePush, InFlight
  <2>4. InFlight' = InFlight
    BY Zenon, <1>2, <2>1, <2>2, <2>3, PushedInPlace
  <2> QED BY <1>1, <2>4 DEF Rests
<1>5. CASE EngineTop \/ EngineIdle \/ FinalNotify \/ RequestShutdown \/ WakeForShutdown \/ Join
  <2>1. inbound' = inbound /\ outbound' = outbound /\ engine # "spin" /\ engine' # "spin"
    BY <1>5 DEF EngineTop, EngineIdle, FinalNotify, RequestShutdown, WakeForShutdown, Join
  <2>2. InFlight' = InFlight
    BY <2>1 DEF InFlight
  <2> QED BY <1>1, <2>2 DEF Rests
<1> QED BY <1>3, <1>4, <1>5 DEF EngineStep

(* Every step is one of the four.                                          *)
LEMMA StepMoves ==
    ASSUME TypeOK, [Next]_vars
    PROVE  Rests \/ Delivered \/ \E c \in Clients : Refused(c) \/ Queued(c)
<1> DEFINE m == IF engine = "spin" THEN <<command>> ELSE <<>>
<1>1. inbound \in Seq(Frame) /\ outbound \in Seq(Frame) /\ m \in Seq(Frame)
  BY DEF TypeOK
<1>2. InFlight = outbound \o m \o inbound
  BY DEF InFlight
<1>3. ASSUME NEW o, NEW i, outbound' = o, inbound' = i, UNCHANGED <<engine, command>>
      PROVE  InFlight' = o \o m \o i
  BY <1>3 DEF InFlight
<1> HIDE DEF m
<1>4. CASE HandleFrame
  <2> DEFINE c == current[1]
  <2>1. c \in Clients /\ read[c] + 1 \in 1..MaxFrames
    <3>1. current \in Clients \X (1..MaxFrames) /\ read \in [Clients -> 0..MaxFrames]
      BY Zenon, <1>4 DEF HandleFrame, TypeOK, Frame
    <3>2. read[current[1]] < current[2]
      BY <1>4 DEF HandleFrame
    <3> QED BY <3>1, <3>2, BoundsAssumption
  <2>2. read' = [read EXCEPT ![c] = read[c] + 1] /\ UNCHANGED <<engine, command, outbound>>
    BY <1>4 DEF HandleFrame, engineVars
  <2>3. \/ Reply(c, read[c] + 1, "error") /\ inbound' = inbound
        \/ inbound' = Append(inbound, <<c, read[c] + 1>>) /\ replies' = replies
        \/ Reply(c, read[c] + 1, "busy") /\ inbound' = inbound
    BY <1>4 DEF HandleFrame
  <2> HIDE DEF c
  <2>4. CASE inbound' = Append(inbound, <<c, read[c] + 1>>) /\ replies' = replies
    <3> DEFINE e == <<c, read[c] + 1>>
    <3>1. e \in Frame
      BY <2>1 DEF Frame
    <3>2. InFlight' = (outbound \o m) \o Append(inbound, e)
      BY Zenon, <1>3, <2>2, <2>4
    <3>3. outbound \o m \in Seq(Frame)
      BY <1>1, Joined
    <3> HIDE DEF e
    <3>4. InFlight' = Append(InFlight, e)
      BY SMTT(60), <1>1, <1>2, <3>1, <3>2, <3>3, QueuedLast
    <3> QED BY Zenon, <2>1, <2>2, <2>4, <3>4 DEF Queued, e
  <2>5. CASE inbound' = inbound
    <3>1. InFlight' = InFlight
      BY <1>2, <1>3, <2>2, <2>5
    <3>2. Refused(c) \/ (inbound' = Append(inbound, <<c, read[c] + 1>>) /\ replies' = replies)
      BY ZenonT(60), <2>2, <2>3, <3>1 DEF Refused
    <3> QED BY <2>1, <2>4, <3>2
  <2> QED BY <2>3, <2>4, <2>5
<1>5. CASE DrainOne
  <2>1. read' = read /\ UNCHANGED <<engine, command, inbound>>
    BY <1>5 DEF DrainOne, engineVars
  <2>2. CASE /\ outbound # <<>> /\ Reply(Head(outbound)[1], Head(outbound)[2], "response")
             /\ outbound' = Tail(outbound)
    <3>1. InFlight' = Tail(outbound) \o m \o inbound
      BY Zenon, <1>3, <2>1, <2>2
    <3>2. /\ outbound \o m # <<>> /\ Head(outbound \o m) = Head(outbound)
          /\ Tail(outbound \o m) = Tail(outbound) \o m
      BY Zenon, <1>1, <2>2, DrainedFirst
    <3>3. outbound \o m \in Seq(Frame)
      BY <1>1, Joined
    <3>4. /\ InFlight # <<>> /\ Head(InFlight) = Head(outbound) /\ InFlight' = Tail(InFlight)
      <4> DEFINE g == outbound \o m
      <4>1. g \in Seq(Frame) /\ g # <<>> /\ Head(g) = Head(outbound) /\ inbound \in Seq(Frame)
        BY Zenon, <1>1, <3>2, <3>3
      <4>2. InFlight = g \o inbound /\ InFlight' = Tail(g) \o inbound
        BY Zenon, <1>2, <3>1, <3>2
      <4> HIDE DEF g
      <4>3. g \o inbound # <<>> /\ Head(g \o inbound) = Head(g)
            /\ Tail(g \o inbound) = Tail(g) \o inbound
        BY ONLY Zenon, <4>1, DrainedFirst
      <4> QED BY ONLY Zenon, <4>1, <4>2, <4>3
    <3> QED BY <2>1, <2>2, <3>4 DEF Delivered
  <2>3. CASE UNCHANGED <<replies, outbound>>
    <3>1. InFlight' = InFlight
      BY <1>2, <1>3, <2>1, <2>3
    <3> QED BY <2>1, <2>3, <3>1 DEF Rests
  <2> QED BY <1>5, <2>2, <2>3 DEF DrainOne
<1>6. ASSUME UNCHANGED <<read, replies, inbound, outbound, engine, command>> PROVE Rests
  <2>1. InFlight' = InFlight
    BY <1>2, <1>3, <1>6
  <2> QED BY <1>6, <2>1 DEF Rests
<1>7. ASSUME NEW c \in Clients, ClientSends(c)
      PROVE  UNCHANGED <<read, replies, inbound, outbound, engine, command>>
  BY <1>7 DEF ClientSends, ioVars, engineVars
<1>8. ASSUME IoTop \/ EpollWait \/ NextEvent \/ ReadDone \/ DrainDone \/ Signal
      PROVE  UNCHANGED <<read, replies, inbound, outbound, engine, command>>
  BY <1>8 DEF IoTop, EpollWait, NextEvent, ReadDone, DrainDone, Signal, engineVars
<1>9. ASSUME UNCHANGED vars
      PROVE  UNCHANGED <<read, replies, inbound, outbound, engine, command>>
  BY <1>9 DEF vars, ioVars, engineVars
<1> QED BY Zenon, <1>4, <1>5, <1>6, <1>7, <1>8, <1>9, EngineMoves
        DEF Next, IoStep, Terminated

-----------------------------------------------------------------------------
(* The accounts: for frames f on their way, replies r and counts k of      *)
(* processed frames, no frame is numbered past the count, each is in one   *)
(* place only, every counted one is in some place, and the engine's        *)
(* answers come in order.                                                  *)
Booked(f, r, k) ==
    /\ \A j \in 1..Len(f) : f[j][2] <= k[f[j][1]]
    /\ \A c \in Clients : \A i \in 1..Len(r[c]) : r[c][i].frame <= k[c]

Ordered(f, r) ==
    /\ \A i, j \in 1..Len(f) : i < j /\ f[i][1] = f[j][1] => f[i][2] < f[j][2]
    /\ \A c \in Clients : \A i \in 1..Len(r[c]), j \in 1..Len(f) :
         r[c][i].kind = "response" /\ f[j][1] = c => r[c][i].frame < f[j][2]
    /\ \A c \in Clients : \A i, j \in 1..Len(r[c]) :
         i < j /\ r[c][i].kind = "response" /\ r[c][j].kind = "response"
           => r[c][i].frame < r[c][j].frame

Apart(f, r) ==
    /\ \A c \in Clients : \A i, j \in 1..Len(r[c]) : i # j => r[c][i].frame # r[c][j].frame
    /\ \A c \in Clients : \A i \in 1..Len(r[c]), j \in 1..Len(f) :
         f[j][1] = c => r[c][i].frame # f[j][2]

Covered(f, r, k) ==
    \A c \in Clients : \A n \in 1..k[c] :
        \/ \E i \in 1..Len(r[c]) : r[c][i].frame = n
        \/ \E j \in 1..Len(f) : f[j][1] = c /\ f[j][2] = n

Accounts(f, r, k) == Booked(f, r, k) /\ Ordered(f, r) /\ Apart(f, r) /\ Covered(f, r, k)

(* What the two kinds of entries hold.                                     *)
LEMMA FramesTyped ==
    ASSUME NEW f \in Seq(Frame)
    PROVE  /\ Len(f) \in Nat
           /\ \A j \in 1..Len(f) : f[j][1] \in Clients /\ f[j][2] \in 1..MaxFrames
<1>1. ASSUME NEW j \in 1..Len(f) PROVE f[j][1] \in Clients /\ f[j][2] \in 1..MaxFrames
  <2>1. f[j] \in Clients \X (1..MaxFrames)
    BY SeqElement DEF Frame
  <2> QED BY <2>1
<1> QED BY <1>1, SeqLength

(* What a client has been answered are answers to frames.                  *)
LEMMA AnswersTyped ==
    ASSUME NEW r \in [Clients -> Seq(Answers)], NEW d \in Clients
    PROVE  /\ r[d] \in Seq(Answers) /\ Len(r[d]) \in Nat
           /\ \A i \in 1..Len(r[d]) : r[d][i].frame \in 1..MaxFrames
<1>1. r[d] \in Seq(Answers)
  OBVIOUS
<1>2. ASSUME NEW i \in 1..Len(r[d]) PROVE r[d][i].frame \in 1..MaxFrames
  <2>1. r[d][i] \in [frame : 1..MaxFrames, kind : {"error", "busy", "response"}]
    BY Zenon, <1>1, SeqElement DEF Answers
  <2> QED BY <2>1
<1> QED BY <1>1, <1>2, SeqLength

(* The counts, when that of c goes up by one.                              *)
LEMMA CountsTyped ==
    ASSUME NEW k \in [Clients -> 0..MaxFrames], NEW c \in Clients,
           NEW h, h = [k EXCEPT ![c] = k[c] + 1], NEW d \in Clients
    PROVE  /\ k[d] \in Int /\ h[d] \in Int /\ k[d] <= h[d]
           /\ d = c => h[d] = k[d] + 1
           /\ d # c => h[d] = k[d]
<1>1. k[d] \in 0..MaxFrames
  OBVIOUS
<1>2. CASE d = c
  <2>1. h[d] = k[d] + 1
    BY <1>2
  <2> QED BY <1>1, <1>2, <2>1, BoundsAssumption
<1>3. CASE d # c
  <2>1. h[d] = k[d]
    BY <1>3
  <2> QED BY <1>1, <1>3, <2>1, BoundsAssumption
<1> QED BY <1>2, <1>3

(* The accounts of a frame that goes on its way.                           *)
LEMMA QueuedAccounts ==
    ASSUME NEW f \in Seq(Frame), NEW r \in [Clients -> Seq(Answers)],
           NEW k \in [Clients -> 0..MaxFrames], Accounts(f, r, k),
           NEW c \in Clients, k[c] + 1 \in 1..MaxFrames
    PROVE  Accounts(Append(f, <<c, k[c] + 1>>), r, [k EXCEPT ![c] = k[c] + 1])
<1> DEFINE e == <<c, k[c] + 1>>
           g == Append(f, e)
           h == [k EXCEPT ![c] = k[c] + 1]
<1>1. e \in Frame /\ e[1] = c /\ e[2] = k[c] + 1
  BY DEF Frame
<1> HIDE DEF e
<1>2. /\ Len(f) \in Nat /\ Len(g) = Len(f) + 1 /\ g[Len(f) + 1] = e
      /\ \A j \in 1..Len(f) : g[j] = f[j]
  BY <1>1, SeqAppend, SeqLength
<1>3. \A j \in 1..Len(f) : f[j][1] \in Clients /\ f[j][2] \in 1..MaxFrames
  BY FramesTyped
<1>4. \A d \in Clients : /\ Len(r[d]) \in Nat
                        /\ \A i \in 1..Len(r[d]) : r[d][i].frame \in 1..MaxFrames
  BY Zenon, AnswersTyped
<1>5. h[c] = k[c] + 1 /\ \A d \in Clients : d # c => h[d] = k[d]
  OBVIOUS
<1>10. \A d \in Clients : h[d] \in Int /\ k[d] \in Int /\ k[d] <= h[d]
  BY Zenon, CountsTyped
<1>6. \A d \in Clients : k[d] \in 0..MaxFrames
  OBVIOUS
<1>7. \A j \in 1..Len(g) : j \in 1..Len(f) \/ j = Len(f) + 1
  BY <1>2
<1>8. \A j \in 1..Len(f) : j \in 1..Len(g)
  BY <1>2
<1>9. Len(f) + 1 \in 1..Len(g)
  BY <1>2
<1> HIDE DEF g, h
<1>11. Booked(g, r, h)
  <2>1. ASSUME NEW j \in 1..Len(g) PROVE g[j][2] <= h[g[j][1]]
    <3>1. CASE j \in 1..Len(f)
      <4>1. f[j][2] <= k[f[j][1]] /\ g[j] = f[j]
        BY <1>2, <3>1 DEF Accounts, Booked
      <4>2. f[j][2] \in Int /\ f[j][1] \in Clients
        BY ONLY <1>3, <3>1, BoundsAssumption
      <4> QED BY <1>10, <4>1, <4>2
    <3>2. CASE j = Len(f) + 1
      <4>1. g[j][1] = c /\ g[j][2] = k[c] + 1
        BY <1>1, <1>2, <3>2
      <4> QED BY <1>5, <1>10, <4>1
    <3> QED BY <1>7, <3>1, <3>2
  <2>2. ASSUME NEW d \in Clients, NEW i \in 1..Len(r[d]) PROVE r[d][i].frame <= h[d]
    <3>1. r[d][i].frame <= k[d]
      BY DEF Accounts, Booked
    <3>2. r[d][i].frame \in Int
      BY <1>4
    <3> QED BY SMTT(60), <1>10, <3>1, <3>2
  <2> QED BY <2>1, <2>2 DEF Booked
<1>12. Ordered(g, r)
  <2>1. ASSUME NEW i \in 1..Len(g), NEW j \in 1..Len(g), i < j, g[i][1] = g[j][1]
        PROVE  g[i][2] < g[j][2]
    <3>1. i \in 1..Len(f)
      BY <1>2, <2>1
    <3>2. CASE j \in 1..Len(f)
      BY Zenon, <1>2, <2>1, <3>1, <3>2 DEF Accounts, Ordered
    <3>3. CASE j = Len(f) + 1
      <4>1. g[i] = f[i] /\ f[i][1] = c /\ g[j][2] = k[c] + 1
        BY SMTT(60), <1>1, <1>2, <2>1, <3>1, <3>3
      <4>2. f[i][2] <= k[c]
        BY SMTT(60), <3>1, <4>1 DEF Accounts, Booked
      <4> QED BY SMTT(60), <1>3, <1>6, <3>1, <4>1, <4>2, BoundsAssumption
    <3> QED BY <1>7, <3>2, <3>3
  <2>2. ASSUME NEW d \in Clients, NEW i \in 1..Len(r[d]), NEW j \in 1..Len(g),
               r[d][i].kind = "response", g[j][1] = d
        PROVE  r[d][i].frame < g[j][2]
    <3>1. CASE j \in 1..Len(f)
      BY Zenon, <1>2, <2>2, <3>1 DEF Accounts, Ordered
    <3>2. CASE j = Len(f) + 1
      <4>1. d = c /\ g[j][2] = k[c] + 1
        BY SMTT(60), <1>1, <1>2, <2>2, <3>2
      <4>2. r[d][i].frame <= k[c]
        BY <4>1 DEF Accounts, Booked
      <4> QED BY SMTT(60), <1>4, <1>6, <4>1, <4>2, BoundsAssumption
    <3> QED BY SMTT(60), <1>7, <3>1, <3>2
  <2> QED BY Zenon, <2>1, <2>2 DEF Accounts, Ordered
<1>13. Apart(g, r)
  <2>1. ASSUME NEW d \in Clients, NEW i \in 1..Len(r[d]), NEW j \in 1..Len(g), g[j][1] = d
        PROVE  r[d][i].frame # g[j][2]
    <3>1. CASE j \in 1..Len(f)
      BY <1>2, <2>1, <3>1 DEF Accounts, Apart
    <3>2. CASE j = Len(f) + 1
      <4>1. d = c /\ g[j][2] = k[c] + 1
        BY SMTT(60), <1>1, <1>2, <2>1, <3>2
      <4>2. r[d][i].frame <= k[c]
        BY SMTT(60), <4>1 DEF Accounts, Booked
      <4> QED BY SMTT(60), <1>4, <1>6, <4>1, <4>2, BoundsAssumption
    <3> QED BY SMTT(60), <1>7, <3>1, <3>2
  <2> QED BY ZenonT(60), <2>1 DEF Accounts, Apart
<1>14. Covered(g, r, h)
  <2> SUFFICES ASSUME NEW d \in Clients, NEW n \in 1..h[d]
               PROVE  \/ \E i \in 1..Len(r[d]) : r[d][i].frame = n
                      \/ \E j \in 1..Len(g) : g[j][1] = d /\ g[j][2] = n
    BY DEF Covered
  <2>1. CASE n \in 1..k[d]
    <3>1. CASE \E i \in 1..Len(r[d]) : r[d][i].frame = n
      BY <3>1
    <3>2. ASSUME NEW j \in 1..Len(f), f[j][1] = d, f[j][2] = n
          PROVE  \E l \in 1..Len(g) : g[l][1] = d /\ g[l][2] = n
      BY SMTT(60), <1>2, <1>8, <3>2
    <3> QED BY ZenonT(60), <2>1, <3>1, <3>2 DEF Accounts, Covered
  <2>2. CASE n \notin 1..k[d]
    <3>1. d = c
      BY <1>5, <2>2
    <3>2. n = k[c] + 1
      BY <1>5, <1>6, <2>2, <3>1, BoundsAssumption
    <3> QED BY SMTT(60), <1>1, <1>2, <1>9, <3>1, <3>2
  <2> QED BY SMTT(60), <2>1, <2>2
<1> QED BY <1>11, <1>12, <1>13, <1>14 DEF Accounts, e, g, h

(* The accounts of a frame answered by the frame handler itself.           *)
LEMMA RefusedAccounts ==
    ASSUME NEW f \in Seq(Frame), NEW r \in [Clients -> Seq(Answers)],
           NEW k \in [Clients -> 0..MaxFrames], Accounts(f, r, k),
           NEW c \in Clients, k[c] + 1 \in 1..MaxFrames, NEW kind \in {"error", "busy"}
    PROVE  Accounts(f, [r EXCEPT ![c] = Append(r[c], [frame |-> k[c] + 1, kind |-> kind])],
                    [k EXCEPT ![c] = k[c] + 1])
<1> DEFINE e == [frame |-> k[c] + 1, kind |-> kind]
           q == [r EXCEPT ![c] = Append(r[c], e)]
           h == [k EXCEPT ![c] = k[c] + 1]
<1>1. e \in Answers /\ e.frame = k[c] + 1 /\ e.kind # "response"
  BY DEF Answers
<1> HIDE DEF e
<1>2. \A d \in Clients : /\ r[d] \in Seq(Answers) /\ Len(r[d]) \in Nat
                        /\ \A i \in 1..Len(r[d]) : r[d][i].frame \in 1..MaxFrames
  BY Zenon, AnswersTyped
<1>3. q[c] = Append(r[c], e) /\ \A d \in Clients : d # c => q[d] = r[d]
  OBVIOUS
<1>4. /\ Len(q[c]) = Len(r[c]) + 1 /\ q[c][Len(r[c]) + 1] = e
      /\ \A i \in 1..Len(r[c]) : q[c][i] = r[c][i]
  BY <1>1, <1>2, <1>3, SeqAppend
<1>5. \A j \in 1..Len(f) : f[j][1] \in Clients /\ f[j][2] \in 1..MaxFrames
  BY FramesTyped
<1>6. h[c] = k[c] + 1 /\ \A d \in Clients : d # c => h[d] = k[d]
  OBVIOUS
<1>8. \A d \in Clients : h[d] \in Int /\ k[d] \in Int /\ k[d] <= h[d]
  BY Zenon, CountsTyped
<1>7. \A d \in Clients : k[d] \in 0..MaxFrames
  OBVIOUS
<1> HIDE DEF q, h
(* A reply is an old one, or the new one.                                  *)
<1>9. ASSUME NEW d \in Clients, NEW i \in 1..Len(q[d])
      PROVE  \/ i \in 1..Len(r[d]) /\ q[d][i] = r[d][i]
             \/ d = c /\ i = Len(r[c]) + 1 /\ q[d][i] = e
  <2>1. CASE d # c
    BY <1>3, <2>1
  <2>2. CASE d = c
    <3>1. i \in 1..(Len(r[c]) + 1) /\ Len(r[c]) \in Nat
      BY <1>2, <1>4, <2>2
    <3>2. i \in 1..Len(r[c]) \/ i = Len(r[c]) + 1
      BY SMTT(60), <3>1
    <3> QED BY <1>4, <2>2, <3>2
  <2> QED BY <2>1, <2>2
<1>10. \A d \in Clients : \A i \in 1..Len(r[d]) : i \in 1..Len(q[d]) /\ q[d][i] = r[d][i]
  <2> SUFFICES ASSUME NEW d \in Clients, NEW i \in 1..Len(r[d])
               PROVE  i \in 1..Len(q[d]) /\ q[d][i] = r[d][i]
    OBVIOUS
  <2>1. CASE d # c
    BY <1>3, <2>1
  <2>2. CASE d = c
    <3>1. Len(r[c]) \in Nat
      BY <1>2
    <3> QED BY <1>4, <2>2, <3>1
  <2> QED BY <2>1, <2>2
<1>11. Booked(f, q, h)
  <2>1. ASSUME NEW j \in 1..Len(f) PROVE f[j][2] <= h[f[j][1]]
    <3>1. f[j][2] <= k[f[j][1]]
      BY DEF Accounts, Booked
    <3>2. f[j][2] \in Int /\ f[j][1] \in Clients
      BY <1>5
    <3> QED BY SMTT(60), <1>8, <3>1, <3>2
  <2>2. ASSUME NEW d \in Clients, NEW i \in 1..Len(q[d]) PROVE q[d][i].frame <= h[d]
    <3>1. CASE i \in 1..Len(r[d]) /\ q[d][i] = r[d][i]
      <4>1. r[d][i].frame <= k[d]
        BY SMTT(60), <3>1 DEF Accounts, Booked
      <4>2. r[d][i].frame \in Int
        BY <1>2, <3>1
      <4> QED BY SMTT(60), <1>8, <3>1, <4>1, <4>2
    <3>2. CASE d = c /\ q[d][i] = e
      BY <1>1, <1>6, <1>8, <3>2
    <3> QED BY <1>9, <3>1, <3>2
  <2> QED BY <2>1, <2>2 DEF Booked
<1>12. Ordered(f, q)
  <2>1. ASSUME NEW d \in Clients, NEW i \in 1..Len(q[d]), q[d][i].kind = "response"
        PROVE  i \in 1..Len(r[d]) /\ q[d][i] = r[d][i]
    BY SMTT(60), <1>1, <1>9, <2>1
  <2> QED BY ZenonT(60), <2>1 DEF Accounts, Ordered
<1>13. Apart(f, q)
  <2>1. ASSUME NEW i \in 1..Len(r[c]) PROVE r[c][i].frame # e.frame
    <3>1. r[c][i].frame <= k[c]
      BY DEF Accounts, Booked
    <3> QED BY <1>1, <1>2, <1>7, <3>1, BoundsAssumption
  <2>2. ASSUME NEW j \in 1..Len(f), f[j][1] = c PROVE e.frame # f[j][2]
    <3>1. f[j][2] <= k[c]
      BY <2>2 DEF Accounts, Booked
    <3> QED BY <1>1, <1>5, <1>7, <3>1, BoundsAssumption
  <2>3. ASSUME NEW d \in Clients, NEW i \in 1..Len(q[d]), NEW j \in 1..Len(q[d]), i # j
        PROVE  q[d][i].frame # q[d][j].frame
    <3>1. CASE q[d][i] = r[d][i] /\ i \in 1..Len(r[d])
      <4>1. CASE q[d][j] = r[d][j] /\ j \in 1..Len(r[d])
        BY <2>3, <3>1, <4>1 DEF Accounts, Apart
      <4>2. CASE d = c /\ q[d][j] = e
        BY <2>1, <3>1, <4>2
      <4> QED BY SMTT(60), <1>9, <4>1, <4>2
    <3>2. CASE d = c /\ i = Len(r[c]) + 1 /\ q[d][i] = e
      <4>1. j \in 1..Len(r[c]) /\ q[d][j] = r[c][j]
        BY Zenon, <1>9, <2>3, <3>2
      <4> QED BY <2>1, <3>2, <4>1
    <3> QED BY <1>9, <3>1, <3>2
  <2>4. ASSUME NEW d \in Clients, NEW i \in 1..Len(q[d]), NEW j \in 1..Len(f), f[j][1] = d
        PROVE  q[d][i].frame # f[j][2]
    <3>1. CASE q[d][i] = r[d][i] /\ i \in 1..Len(r[d])
      BY SMTT(60), <2>4, <3>1 DEF Accounts, Apart
    <3>2. CASE d = c /\ q[d][i] = e
      BY <2>2, <2>4, <3>2
    <3> QED BY SMTT(60), <1>9, <3>1, <3>2
  <2> QED BY Zenon, <2>3, <2>4 DEF Apart
<1>14. Covered(f, q, h)
  <2> SUFFICES ASSUME NEW d \in Clients, NEW n \in 1..h[d]
               PROVE  \/ \E i \in 1..Len(q[d]) : q[d][i].frame = n
                      \/ \E j \in 1..Len(f) : f[j][1] = d /\ f[j][2] = n
    BY Zenon DEF Covered
  <2>1. CASE n \in 1..k[d]
    <3>1. CASE \E j \in 1..Len(f) : f[j][1] = d /\ f[j][2] = n
      BY SMTT(60), <3>1
    <3>2. ASSUME NEW i \in 1..Len(r[d]), r[d][i].frame = n
          PROVE  \E l \in 1..Len(q[d]) : q[d][l].frame = n
      BY Zenon, <1>10, <3>2
    <3> QED BY SMTT(60), <2>1, <3>1, <3>2 DEF Accounts, Covered
  <2>2. CASE n \notin 1..k[d]
    <3>1. d = c
      BY <1>6, <2>2
    <3>2. n = k[c] + 1
      BY <1>6, <1>7, <2>2, <3>1, BoundsAssumption
    <3>3. Len(r[c]) + 1 \in 1..Len(q[c])
      BY <1>2, <1>4
    <3> QED BY <1>1, <1>4, <3>1, <3>2, <3>3
  <2> QED BY <2>1, <2>2
<1> QED BY <1>11, <1>12, <1>13, <1>14 DEF Accounts, e, q, h

(* The accounts of the oldest frame, answered by the engine.               *)
LEMMA DeliveredAccounts ==
    ASSUME NEW f \in Seq(Frame), f # <<>>, NEW r \in [Clients -> Seq(Answers)],
           NEW k \in [Clients -> 0..MaxFrames], Accounts(f, r, k)
    PROVE  LET c == Head(f)[1]
               e == [frame |-> Head(f)[2], kind |-> "response"]
           IN  Accounts(Tail(f), [r EXCEPT ![c] = Append(r[c], e)], k)
<1> DEFINE c == Head(f)[1]
           e == [frame |-> Head(f)[2], kind |-> "response"]
           g == Tail(f)
           q == [r EXCEPT ![c] = Append(r[c], e)]
<1>1. /\ Len(f) \in Nat \ {0} /\ Head(f) = f[1] /\ Len(g) = Len(f) - 1
      /\ \A j \in 1..Len(g) : g[j] = f[j + 1]
  BY SeqHeadTail, SeqEmpty, SeqLength
<1>2. \A j \in 1..Len(f) : f[j][1] \in Clients /\ f[j][2] \in 1..MaxFrames
  BY FramesTyped
<1>3. 1 \in 1..Len(f)
  BY <1>1
<1>4. c \in Clients /\ e \in Answers /\ e.frame = f[1][2] /\ c = f[1][1]
  BY <1>1, <1>2, <1>3 DEF Answers
<1> HIDE DEF c, e
<1>5. \A d \in Clients : /\ r[d] \in Seq(Answers) /\ Len(r[d]) \in Nat
                        /\ \A i \in 1..Len(r[d]) : r[d][i].frame \in 1..MaxFrames
  BY Zenon, AnswersTyped
<1>6. q[c] = Append(r[c], e) /\ \A d \in Clients : d # c => q[d] = r[d]
  BY <1>4
<1>7. /\ Len(q[c]) = Len(r[c]) + 1 /\ q[c][Len(r[c]) + 1] = e
      /\ \A i \in 1..Len(r[c]) : q[c][i] = r[c][i]
  BY <1>4, <1>5, <1>6, SeqAppend
<1>8. \A j \in 1..Len(g) : j + 1 \in 1..Len(f) /\ 1 < j + 1 /\ g[j] = f[j + 1]
  BY <1>1
<1> HIDE DEF g, q
<1>9. ASSUME NEW d \in Clients, NEW i \in 1..Len(q[d])
      PROVE  \/ i \in 1..Len(r[d]) /\ q[d][i] = r[d][i]
             \/ d = c /\ i = Len(r[c]) + 1 /\ q[d][i] = e
  <2>1. CASE d # c
    BY <1>6, <2>1
  <2>2. CASE d = c
    <3>1. i \in 1..(Len(r[c]) + 1) /\ Len(r[c]) \in Nat
      BY <1>5, <1>7, <2>2
    <3>2. i \in 1..Len(r[c]) \/ i = Len(r[c]) + 1
      BY <3>1
    <3> QED BY <1>7, <2>2, <3>2
  <2> QED BY <2>1, <2>2
<1>10. ASSUME NEW d \in Clients, NEW i \in 1..Len(r[d])
       PROVE  i \in 1..Len(q[d]) /\ q[d][i] = r[d][i]
  <2>1. CASE d # c
    BY SMTT(60), <1>6, <2>1
  <2>2. CASE d = c
    <3>1. Len(r[c]) \in Nat
      BY <1>4, <1>5
    <3> QED BY <1>7, <2>2, <3>1
  <2> QED BY <2>1, <2>2
<1>11. Booked(g, q, k)
  <2>1. ASSUME NEW j \in 1..Len(g) PROVE g[j][2] <= k[g[j][1]]
    BY Zenon, <1>8 DEF Accounts, Booked
  <2>2. ASSUME NEW d \in Clients, NEW i \in 1..Len(q[d]) PROVE q[d][i].frame <= k[d]
    <3>1. CASE i \in 1..Len(r[d]) /\ q[d][i] = r[d][i]
      BY <3>1 DEF Accounts, Booked
    <3>2. CASE d = c /\ q[d][i] = e
      BY <1>3, <1>4, <3>2 DEF Accounts, Booked
    <3> QED BY <1>9, <3>1, <3>2
  <2> QED BY <2>1, <2>2 DEF Booked
<1>12. Ordered(g, q)
  <2>1. ASSUME NEW i \in 1..Len(g), NEW j \in 1..Len(g), i < j, g[i][1] = g[j][1]
        PROVE  g[i][2] < g[j][2]
    <3>1. i + 1 < j + 1 /\ i + 1 \in 1..Len(f) /\ j + 1 \in 1..Len(f)
      BY <1>8, <2>1
    <3>2. g[i] = f[i + 1] /\ g[j] = f[j + 1]
      BY <1>8
    <3> QED BY Zenon, <2>1, <3>1, <3>2 DEF Accounts, Ordered
  <2>2. ASSUME NEW d \in Clients, NEW i \in 1..Len(q[d]), NEW j \in 1..Len(g),
               q[d][i].kind = "response", g[j][1] = d
        PROVE  q[d][i].frame < g[j][2]
    <3>1. j + 1 \in 1..Len(f) /\ 1 < j + 1 /\ g[j] = f[j + 1]
      BY <1>8
    <3>2. CASE i \in 1..Len(r[d]) /\ q[d][i] = r[d][i]
      BY Zenon, <2>2, <3>1, <3>2 DEF Accounts, Ordered
    <3>3. CASE d = c /\ q[d][i] = e
      BY Zenon, <1>3, <1>4, <2>2, <3>1, <3>3 DEF Accounts, Ordered
    <3> QED BY <1>9, <3>2, <3>3
  <2>3. ASSUME NEW d \in Clients, NEW i \in 1..Len(q[d]), NEW j \in 1..Len(q[d]), i < j,
               q[d][i].kind = "response", q[d][j].kind = "response"
        PROVE  q[d][i].frame < q[d][j].frame
    <3>1. CASE j \in 1..Len(r[d]) /\ q[d][j] = r[d][j]
      <4>1. i \in 1..Len(r[d])
        BY <2>3, <3>1
      <4>2. q[d][i] = r[d][i]
        BY <1>10, <4>1
      <4> QED BY Zenon, <2>3, <3>1, <4>1, <4>2 DEF Accounts, Ordered
    <3>2. CASE d = c /\ j = Len(r[c]) + 1 /\ q[d][j] = e
      <4>1. i \in 1..Len(r[d])
        <5>1. Len(r[c]) \in Nat
          BY <1>4, <1>5
        <5> QED BY <2>3, <3>2, <5>1
      <4>2. q[d][i] = r[d][i]
        BY <1>10, <4>1
      <4> QED BY ZenonT(60), <1>3, <1>4, <2>3, <3>2, <4>1, <4>2 DEF Accounts, Ordered
    <3> QED BY <1>9, <3>1, <3>2
  <2> QED BY Zenon, <2>1, <2>2, <2>3 DEF Ordered
<1>13. Apart(g, q)
  <2>1. ASSUME NEW i \in 1..Len(r[c]) PROVE r[c][i].frame # e.frame
    BY <1>3, <1>4 DEF Accounts, Apart
  <2>2. ASSUME NEW d \in Clients, NEW i \in 1..Len(q[d]), NEW j \in 1..Len(q[d]), i # j
        PROVE  q[d][i].frame # q[d][j].frame
    <3>1. CASE q[d][i] = r[d][i] /\ i \in 1..Len(r[d])
      <4>1. CASE q[d][j] = r[d][j] /\ j \in 1..Len(r[d])
        BY <2>2, <3>1, <4>1 DEF Accounts, Apart
      <4>2. CASE d = c /\ q[d][j] = e
        BY <2>1, <3>1, <4>2
      <4> QED BY <1>9, <4>1, <4>2
    <3>2. CASE d = c /\ i = Len(r[c]) + 1 /\ q[d][i] = e
      <4>1. j \in 1..Len(r[c]) /\ q[d][j] = r[c][j]
        BY Zenon, <1>9, <2>2, <3>2
      <4> QED BY <2>1, <3>2, <4>1
    <3> QED BY <1>9, <3>1, <3>2
  <2>3. ASSUME NEW d \in Clients, NEW i \in 1..Len(q[d]), NEW j \in 1..Len(g), g[j][1] = d
        PROVE  q[d][i].frame # g[j][2]
    <3>1. j + 1 \in 1..Len(f) /\ 1 < j + 1 /\ g[j] = f[j + 1]
      BY <1>8
    <3>2. CASE q[d][i] = r[d][i] /\ i \in 1..Len(r[d])
      BY Zenon, <2>3, <3>1, <3>2 DEF Accounts, Apart
    <3>3. CASE d = c /\ q[d][i] = e
      <4>1. f[1][2] < f[j + 1][2]
        BY Zenon, <1>3, <1>4, <2>3, <3>1, <3>3 DEF Accounts, Ordered
      <4>2. f[1][2] \in Int /\ f[j + 1][2] \in Int
        BY <1>2, <1>3, <3>1
      <4> QED BY <1>4, <3>1, <3>3, <4>1, <4>2
    <3> QED BY <1>9, <3>2, <3>3
  <2> QED BY Zenon, <2>2, <2>3 DEF Apart
<1>14. Covered(g, q, k)
  <2> SUFFICES ASSUME NEW d \in Clients, NEW n \in 1..k[d]
               PROVE  \/ \E i \in 1..Len(q[d]) : q[d][i].frame = n
                      \/ \E j \in 1..Len(g) : g[j][1] = d /\ g[j][2] = n
    BY Zenon DEF Covered
  <2>1. ASSUME NEW i \in 1..Len(r[d]), r[d][i].frame = n
        PROVE  \E l \in 1..Len(q[d]) : q[d][l].frame = n
    BY Zenon, <1>10, <2>1
  <2>2. ASSUME NEW j \in 1..Len(f), f[j][1] = d, f[j][2] = n
        PROVE  \/ \E i \in 1..Len(q[d]) : q[d][i].frame = n
               \/ \E l \in 1..Len(g) : g[l][1] = d /\ g[l][2] = n
    <3>1. CASE j = 1
      <4>1. d = c /\ e.frame = n
        BY <1>4, <2>2, <3>1
      <4>2. Len(r[c]) + 1 \in 1..Len(q[c])
        <5>1. Len(r[c]) \in Nat
          BY <1>4, <1>5
        <5> QED BY <1>7, <5>1
      <4>3. q[c][Len(r[c]) + 1] = e
        BY <1>7
      <4> QED BY ZenonT(60), <4>1, <4>2, <4>3
    <3>2. CASE j # 1
      <4>1. j - 1 \in 1..Len(g) /\ (j - 1) + 1 = j
        BY <1>1, <3>2 DEF g
      <4>2. g[j - 1] = f[j]
        BY <1>8, <4>1
      <4> QED BY ZenonT(60), <2>2, <4>1, <4>2
    <3> QED BY ZenonT(60), <3>1, <3>2
  <2>3. \/ \E i \in 1..Len(r[d]) : r[d][i].frame = n
        \/ \E j \in 1..Len(f) : f[j][1] = d /\ f[j][2] = n
    BY ZenonT(60) DEF Accounts, Covered
  <2> QED BY ZenonT(60), <2>1, <2>2, <2>3
<1> QED BY <1>11, <1>12, <1>13, <1>14 DEF Accounts, c, e, g, q

-----------------------------------------------------------------------------
(* The inductive invariant: types and places, the accounts, the capacities *)
(* of the rings, and the wakeup owed for a waiting response.               *)
ServerInv ==
    /\ TypeOK /\ Places
    /\ Accounts(InFlight, replies, read)
    /\ Len(inbound) <= InboundCapacity /\ Len(outbound) <= OutboundCapacity
    /\ NoLostWakeup

(* Nothing is on its way at first.                                         *)
LEMMA ServerStart == Init => ServerInv
<1> SUFFICES ASSUME Init PROVE ServerInv
  OBVIOUS
<1>1. TypeOK /\ Places
  BY PlacesStart
<1>2. InFlight = <<>>
  BY DEF Init, InFlight
<1>3. /\ \A c \in Clients : replies[c] = <<>> /\ read[c] = 0
      /\ inbound = <<>> /\ outbound = <<>>
  BY DEF Init
<1>4. Len(<<>>) = 0 /\ 1..0 = {}
  OBVIOUS
<1>5. /\ \A c \in Clients : 1..Len(replies[c]) = {} /\ 1..read[c] = {}
      /\ 1..Len(InFlight) = {}
  BY <1>2, <1>3, <1>4
<1>6. Accounts(InFlight, replies, read)
  BY Zenon, <1>5 DEF Accounts, Booked, Ordered, Apart, Covered
<1>7. Len(inbound) <= InboundCapacity /\ Len(outbound) <= OutboundCapacity
  BY <1>3, BoundsAssumption
<1>8. NoLostWakeup
  BY <1>3 DEF NoLostWakeup
<1> QED BY <1>1, <1>6, <1>7, <1>8 DEF ServerInv

(* Every step keeps the accounts.                                          *)
LEMMA AccountsStep ==
    ASSUME TypeOK, Places, Accounts(InFlight, replies, read), [Next]_vars
    PROVE  Accounts(InFlight', replies', read')
<1>1. /\ InFlight \in Seq(Frame) /\ replies \in [Clients -> Seq(Answers)]
      /\ read \in [Clients -> 0..MaxFrames]
  BY Zenon, InFlightTyped DEF TypeOK, Answers
<1>2. CASE Rests
  BY <1>2 DEF Rests
<1>3. CASE Delivered
  BY Zenon, <1>1, <1>3, DeliveredAccounts DEF Delivered, Reply
<1>4. ASSUME NEW c \in Clients, Refused(c) \/ Queued(c) PROVE Accounts(InFlight', replies', read')
  <2>1. read' = [read EXCEPT ![c] = read[c] + 1]
    BY <1>4 DEF Refused, Queued
  <2>2. read' \in [Clients -> 0..MaxFrames]
    BY Zenon, PlacesStep DEF TypeOK
  <2>3. read'[c] = read[c] + 1 /\ read'[c] \in 0..MaxFrames /\ read[c] \in 0..MaxFrames
    BY <1>1, <2>1, <2>2
  <2>4. read[c] + 1 \in 1..MaxFrames
    BY <2>3, BoundsAssumption
  <2>5. CASE Queued(c)
    BY Zenon, <1>1, <2>4, <2>5, QueuedAccounts DEF Queued
  <2>6. CASE Refused(c)
    <3>1. PICK kind \in {"error", "busy"} : Reply(c, read[c] + 1, kind)
      BY <2>6 DEF Refused
    <3> QED BY Zenon, <1>1, <2>4, <2>6, <3>1, RefusedAccounts DEF Refused, Reply
  <2> QED BY <1>4, <2>5, <2>6
<1> QED BY <1>2, <1>3, <1>4, StepMoves

(* No ring takes more than it holds.                                       *)
LEMMA RingsBounded ==
    ASSUME TypeOK, Len(inbound) <= InboundCapacity, Len(outbound) <= OutboundCapacity,
           [Next]_vars
    PROVE  Len(inbound') <= InboundCapacity /\ Len(outbound') <= OutboundCapacity
<1>1. /\ inbound \in Seq(Frame) /\ outbound \in Seq(Frame)
      /\ Len(inbound) \in Nat /\ Len(outbound) \in Nat
      /\ InboundCapacity \in Nat /\ OutboundCapacity \in Nat
  BY BoundsAssumption, SeqLength DEF TypeOK
<1>2. ASSUME NEW s \in Seq(Frame), s # <<>> PROVE Len(Tail(s)) = Len(s) - 1 /\ Len(s) \in Nat
  BY <1>2, SeqHeadTail, SeqLength
<1>3. ASSUME NEW s \in Seq(Frame), NEW e PROVE Len(Append(s, e)) = Len(s) + 1 /\ Len(s) \in Nat
  BY SeqLength
<1>4. CASE HandleFrame
  <2>1. outbound' = outbound
    BY <1>4 DEF HandleFrame
  <2>2. \/ inbound' = inbound
        \/ Len(inbound) < InboundCapacity /\ \E e : inbound' = Append(inbound, e)
    BY <1>4 DEF HandleFrame
  <2> QED BY <1>1, <1>3, <2>1, <2>2
<1>5. CASE DrainOne
  <2>1. inbound' = inbound /\ (outbound' = outbound \/ (outbound # <<>> /\ outbound' = Tail(outbound)))
    BY <1>5 DEF DrainOne
  <2> QED BY <1>1, <1>2, <2>1
<1>6. CASE EnginePop
  <2>1. outbound' = outbound /\ (inbound' = inbound \/ (inbound # <<>> /\ inbound' = Tail(inbound)))
    BY <1>6 DEF EnginePop
  <2> QED BY <1>1, <1>2, <2>1
<1>7. CASE EnginePush
  <2>1. inbound' = inbound /\ Len(outbound) < OutboundCapacity /\ outbound' = Append(outbound, command)
    BY <1>7 DEF EnginePush
  <2> QED BY <1>1, <1>3, <2>1
<1>8. ASSUME inbound' = inbound, outbound' = outbound
      PROVE  Len(inbound') <= InboundCapacity /\ Len(outbound') <= OutboundCapacity
  BY <1>8
<1>9. ASSUME NEW c \in Clients, ClientSends(c) PROVE inbound' = inbound /\ outbound' = outbound
  BY SMTT(60), <1>9 DEF ClientSends
<1>10. ASSUME \/ Signal \/ IoTop \/ EpollWait \/ NextEvent \/ ReadDone \/ DrainDone
              \/ EngineTop \/ EngineIdle \/ FinalNotify \/ RequestShutdown
              \/ WakeForShutdown \/ Join \/ UNCHANGED vars
       PROVE  inbound' = inbound /\ outbound' = outbound
  BY <1>10 DEF Signal, IoTop, EpollWait, NextEvent, ReadDone, DrainDone, EngineTop, EngineIdle,
               FinalNotify, RequestShutdown, WakeForShutdown, Join, vars
<1> QED BY Zenon, <1>4, <1>5, <1>6, <1>7, <1>8, <1>9, <1>10
        DEF Next, IoStep, EngineStep, Terminated

(* The wakeup is owed, on its way or being served after every step: it     *)
(* matters that nothing of a batch is left when epoll_wait clears the      *)
(* edge.                                                                   *)
LEMMA WakeupStep ==
    ASSUME TypeOK, Places, NoLostWakeup, [Next]_vars
    PROVE  NoLostWakeup'
<1> SUFFICES ASSUME outbound' # <<>>
             PROVE  \/ pending' \/ efdEdge'
                    \/ Eventfd \in batch' \/ io' \in {"drain", "exited"}
  BY DEF NoLostWakeup
<1>1. CASE EnginePush
  BY <1>1 DEF EnginePush
<1>2. CASE DrainOne
  BY <1>2 DEF DrainOne
<1>3. ASSUME outbound' = outbound
      PROVE  pending \/ efdEdge \/ Eventfd \in batch \/ io \in {"drain", "exited"}
  BY <1>3 DEF NoLostWakeup
<1>4. CASE Signal
  BY <1>4 DEF Signal
<1>5. CASE IoTop
  BY <1>3, <1>5 DEF IoTop, engineVars
<1>6. CASE EpollWait
  BY <1>3, <1>6 DEF EpollWait, Places, engineVars
<1>7. CASE NextEvent
  BY <1>3, <1>7 DEF NextEvent, engineVars
<1>8. CASE HandleFrame \/ ReadDone \/ DrainDone
  BY <1>3, <1>8 DEF HandleFrame, ReadDone, DrainDone, engineVars
<1>9. CASE EngineTop \/ EnginePop \/ EngineIdle \/ FinalNotify \/ RequestShutdown \/ WakeForShutdown \/ Join
  BY Zenon, <1>3, <1>9 DEF EngineTop, EnginePop, EngineIdle, FinalNotify, RequestShutdown,
                    WakeForShutdown, Join, NotEngine, ioVars
<1>10. ASSUME NEW c \in Clients, ClientSends(c)
       PROVE  UNCHANGED <<outbound, pending, efdEdge, batch, io>>
  BY <1>10 DEF ClientSends, ioVars, engineVars
<1>11. ASSUME UNCHANGED vars PROVE UNCHANGED <<outbound, pending, efdEdge, batch, io>>
  BY <1>11 DEF vars, ioVars, engineVars
<1>12. CASE UNCHANGED <<outbound, pending, efdEdge, batch, io>>
  BY <1>3, <1>12
<1> QED BY Zenon, <1>1, <1>2, <1>4, <1>5, <1>6, <1>7, <1>8, <1>9, <1>10, <1>11, <1>12
        DEF Next, IoStep, EngineStep, Terminated

(* Every step keeps the invariant of the server.                           *)
LEMMA ServerInvStep == ServerInv /\ [Next]_vars => ServerInv'
<1> SUFFICES ASSUME ServerInv, [Next]_vars PROVE ServerInv'
  OBVIOUS
<1>1. TypeOK' /\ Places'
  BY PlacesStep DEF ServerInv
<1>2. Accounts(InFlight', replies', read')
  BY AccountsStep DEF ServerInv
<1>3. Len(inbound') <= InboundCapacity /\ Len(outbound') <= OutboundCapacity
  BY RingsBounded DEF ServerInv
<1>4. NoLostWakeup'
  BY WakeupStep DEF ServerInv
<1> QED BY Zenon, <1>1, <1>2, <1>3, <1>4 DEF ServerInv, Accounts, Booked, Ordered, Apart, Covered

(* The two threads, the rings and the wakeups keep the invariant in every  *)
(* interleaving, shutdown included.                                        *)
THEOREM ServerSafe == Spec => []ServerInv
BY ServerStart, ServerInvStep, PTL DEF Spec

(* The program counters, flags and buffers of the threads hold what the    *)
(* code can put there.                                                     *)
THEOREM ServerTypeCorrect == Spec => []TypeOK
<1>1. ServerInv => TypeOK
  BY DEF ServerInv
<1> QED BY <1>1, ServerSafe, PTL

INSTANCE FiniteSetTheorems


(* The accounts count each frame once.                                     *)
LEMMA AccountedOnce ==
    ASSUME TypeOK, Accounts(InFlight, replies, read),
           NEW c \in Clients, NEW n \in 1..MaxFrames
    PROVE  Occurrences(c, n) = IF n <= read[c] THEN 1 ELSE 0
<1> DEFINE A == {i \in DOMAIN replies[c] : replies[c][i].frame = n}
           B == {i \in DOMAIN InFlight : InFlight[i] = <<c, n>>}
<1>1. /\ InFlight \in Seq(Frame) /\ replies \in [Clients -> Seq(Answers)]
      /\ read \in [Clients -> 0..MaxFrames]
  BY ZenonT(60), InFlightTyped DEF TypeOK, Answers
<1>2. /\ DOMAIN replies[c] = 1..Len(replies[c]) /\ DOMAIN InFlight = 1..Len(InFlight)
  BY <1>1, AnswersTyped, SeqLength
<1>3. \A i \in 1..Len(replies[c]) : replies[c][i].frame \in 1..MaxFrames
  BY SMTT(60), <1>1, AnswersTyped
<1>4. ASSUME NEW j \in 1..Len(InFlight)
      PROVE  InFlight[j] = <<c, n>> <=> InFlight[j][1] = c /\ InFlight[j][2] = n
  <2>1. InFlight[j] \in Clients \X (1..MaxFrames)
    BY SMTT(60), <1>1, SeqElement DEF Frame
  <2> QED BY SMTT(60), <2>1
<1>5. read[c] \in Int /\ n \in Int
  BY SMTT(60), <1>1, BoundsAssumption
<1>6. Occurrences(c, n) = Cardinality(A) + Cardinality(B)
  BY ZenonT(60) DEF Occurrences
<1>7. \A i \in A : i \in 1..Len(replies[c]) /\ replies[c][i].frame = n
  BY ZenonT(60), <1>2
<1>8. \A j \in B : j \in 1..Len(InFlight) /\ InFlight[j][1] = c /\ InFlight[j][2] = n
  BY ZenonT(60), <1>2, <1>4
<1>9. \A i \in 1..Len(replies[c]) : replies[c][i].frame = n => i \in A
  BY ZenonT(60), <1>2
<1>10. \A j \in 1..Len(InFlight) : InFlight[j][1] = c /\ InFlight[j][2] = n => j \in B
  BY Zenon, <1>2, <1>4
<1> HIDE DEF A, B
<1>11. \A i, j \in A : i = j
  BY ZenonT(60), <1>7 DEF Accounts, Apart
<1>12. \A i \in A, j \in B : FALSE
  BY SMTT(60), <1>7, <1>8 DEF Accounts, Apart
<1>13. \A i, j \in B : i = j
  <2> SUFFICES ASSUME NEW i \in B, NEW j \in B, i < j PROVE FALSE
    BY <1>8
  <2>1. InFlight[i][2] < InFlight[j][2]
    BY Zenon, <1>8 DEF Accounts, Ordered
  <2> QED BY <1>5, <1>8, <2>1
<1>14. CASE n <= read[c]
  <2>1. n \in 1..read[c]
    BY <1>5, <1>14
  <2>2. (\E i \in 1..Len(replies[c]) : replies[c][i].frame = n)
          \/ (\E j \in 1..Len(InFlight) : InFlight[j][1] = c /\ InFlight[j][2] = n)
    BY <2>1 DEF Accounts, Covered
  <2>3. (\E i : i \in A) \/ (\E j : j \in B)
    BY Zenon, <1>9, <1>10, <2>2
  <2>4. ASSUME NEW i \in A PROVE A = {i} /\ B = {}
    BY SMTT(60), <1>11, <1>12
  <2>5. ASSUME NEW j \in B PROVE A = {} /\ B = {j}
    BY SMTT(60), <1>12, <1>13
  <2>6. Cardinality(A) + Cardinality(B) = 1
    <3>1. Cardinality({}) = 0 /\ \A i : Cardinality({i}) = 1
      BY Zenon, FS_EmptySet, FS_Singleton
    <3>2. ASSUME NEW i \in A PROVE Cardinality(A) + Cardinality(B) = 1
      <4>1. Cardinality(A) = 1 /\ Cardinality(B) = 0
        BY ZenonT(60), <2>4, <3>1
      <4> QED BY <4>1
    <3>3. ASSUME NEW j \in B PROVE Cardinality(A) + Cardinality(B) = 1
      <4>1. Cardinality(A) = 0 /\ Cardinality(B) = 1
        BY ZenonT(60), <2>5, <3>1
      <4> QED BY <4>1
    <3> QED BY SMTT(60), <2>3, <3>2, <3>3
  <2> QED BY <1>6, <1>14, <2>6
<1>15. CASE ~(n <= read[c])
  <2>1. ASSUME NEW i \in A PROVE FALSE
    <3>1. replies[c][i].frame <= read[c]
      BY ZenonT(60), <1>7 DEF Accounts, Booked
    <3> QED BY SMTT(60), <1>7, <1>15, <3>1
  <2>2. ASSUME NEW j \in B PROVE FALSE
    <3>1. InFlight[j][2] <= read[InFlight[j][1]]
      BY ZenonT(60), <1>8 DEF Accounts, Booked
    <3> QED BY SMTT(60), <1>8, <1>15, <3>1
  <2>3. Cardinality(A) + Cardinality(B) = 0
    BY SMTT(60), <2>1, <2>2, FS_EmptySet
  <2> QED BY <1>6, <1>15, <2>3
<1> QED BY SMTT(60), <1>14, <1>15

(* However the threads interleave, every frame read from a client is       *)
(* answered once, or it is in a ring or with the engine thread; and no     *)
(* ring is overfilled.                                                     *)
THEOREM ServerAccountsForFrames == Spec => []EveryFrameAccounted
<1>1. ServerInv => EveryFrameAccounted
  BY AccountedOnce DEF ServerInv, EveryFrameAccounted
<1> QED BY <1>1, ServerSafe, PTL

(* The engine's responses reach each client in the order of its frames.    *)
THEOREM ServerKeepsOrder == Spec => []ResponsesInOrder
<1>1. ASSUME ServerInv PROVE ResponsesInOrder
  <2>1. /\ InFlight \in Seq(Frame) /\ replies \in [Clients -> Seq(Answers)]
    BY ZenonT(60), <1>1, InFlightTyped DEF ServerInv, TypeOK, Answers
  <2>2. DOMAIN InFlight = 1..Len(InFlight)
    BY <2>1, SeqLength
  <2>3. \A c \in Clients : DOMAIN replies[c] = 1..Len(replies[c])
    BY SMTT(60), <2>1, SeqLength
  <2>4. Ordered(InFlight, replies)
    BY <1>1 DEF ServerInv, Accounts
  <2> QED BY ZenonT(60), <2>2, <2>3, <2>4 DEF ResponsesInOrder, Ordered
<1> QED BY <1>1, ServerSafe, PTL

(* A response in the outbound ring always has a wakeup owed, written or    *)
(* being served, for as long as the I/O thread runs.                       *)
THEOREM ServerLosesNoWakeup == Spec => []NoLostWakeup
<1>1. ServerInv => NoLostWakeup
  BY DEF ServerInv
<1> QED BY <1>1, ServerSafe, PTL
=============================================================================
