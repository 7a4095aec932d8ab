------------------------------ MODULE Gateways ------------------------------
(* The protocol front ends on the engine: the server's text and binary     *)
(* gateways and the FIX session in front of the risk engine, the command   *)
(* line in front of a bare matching engine.  One front end is in use.  A   *)
(* request is read off the wire, parsed, run by the engine step by step,   *)
(* and answered; then the client reads the answer.  The queues between the *)
(* threads are ExchangeServer's subject.                                   *)
EXTENDS RiskEngine, TextProtocol, BinaryProtocol, FixProtocol
LOCAL INSTANCE Functions

CONSTANTS FrontEnds,    \* a subset of text, binary, fix, cli
          MaxReports,   \* bound: execution reports of all FIX sessions
          Commands,     \* client -> the engine commands it sends
          Spoiled       \* the commands of which unusable forms are sent, too

ASSUME FrontEndsAssumption == FrontEnds \subseteq {"text", "binary", "fix", "cli"}

VARIABLES
    front,      \* the front end in use
    running,    \* the command line's loop has not been left
    encoder,    \* client -> next_seq_num_ and next_exec_id_ of its FixEncoder
    tradeSeq,   \* next_trade_sequence_
    handling,   \* the request the engine is working on, or None
    last        \* the request just answered, or None

gatewayVars == <<front, running, encoder, tradeSeq, handling, last>>

None == [kind |-> "none"]

GatewayInit ==
    /\ RiskInit
    /\ front \in FrontEnds
    /\ running = TRUE
    /\ encoder = [c \in Clients |-> [seqNum |-> 1, execId |-> 1]]
    /\ tradeSeq = 0
    /\ handling = None /\ last = None

-----------------------------------------------------------------------------
(* Parsing and rendering.                                                  *)

Parse(f, wire) ==
    CASE f = "text" -> ParseText(wire)
      [] f = "cli" -> ParseCli(wire)
      [] f = "binary" -> ParseBinary(wire)
      [] f = "fix" -> ParseFix(wire)

Render(req, r) ==
    CASE front = "text" -> RenderText(r)
      [] front = "cli" -> PrintResponse(r, req.parsed.kind = "cancel")
      [] front = "binary" -> RenderBinary(r)
      [] front = "fix" -> ExecutionReport(req.parsed, r, encoder[req.client].seqNum,
                                          encoder[req.client].execId)

(* handle_message returns the FixError and sends nothing.                  *)
RenderError ==
    CASE front \in {"text", "cli"} -> RenderTextError
      [] front = "binary" -> RenderBinaryError
      [] front = "fix" -> None

(* The command as the engine gets it: dispatch_command and the FIX parser  *)
(* stamp the session's client on it; the command line leaves ClientId{}.   *)
Order(cmd, client) ==
    [id |-> cmd.id, owner |-> client, side |-> cmd.side, quantity |-> cmd.quantity,
     limit |-> IF cmd.kind = "limit" THEN cmd.price ELSE NoLimit]

Response(status, ts, rest, id) ==
    [kind |-> "response", status |-> status, trades |-> ts, remaining |-> rest, id |-> id]

(* The response goes out and the FIX encoder's numbers are used up.        *)
Answer(req, r) ==
    /\ last' = [kind |-> "answered", request |-> req, response |-> r, reply |-> Render(req, r)]
    /\ handling' = None
    /\ encoder' = IF front # "fix" THEN encoder
                  ELSE [encoder EXCEPT ![req.client] =
                          [seqNum |-> @.seqNum + 1, execId |-> @.execId + 1]]

-----------------------------------------------------------------------------
(* The handlers.                                                           *)

Ready ==
    /\ running /\ pc = "idle" /\ last = None
    /\ SumFunction([c \in Clients |-> encoder[c].seqNum - 1]) < MaxReports

(* A parse error is answered without the engine.                           *)
HandleError(req) ==
    /\ req.parsed.kind = "error"
    /\ last' = [kind |-> "answered", request |-> req, response |-> None,
                reply |-> RenderError]
    /\ UNCHANGED <<vars, riskVars, front, running, encoder, tradeSeq, handling>>

BookSide(side) == [p \in Levels(book, side) |-> book.total[side][p]]

(* PRINT_BOOK and QUIT. *)
HandleCliCommand(req) ==
    /\ req.parsed.kind \in {"print", "quit"}
    /\ last' = [kind |-> "answered", request |-> req, response |-> None,
                reply |-> IF req.parsed = QuitRequest THEN None
                          ELSE PrintBook(BookSide("Sell"), BookSide("Buy"))]
    /\ running' = (req.parsed # QuitRequest)
    /\ UNCHANGED <<vars, riskVars, front, encoder, tradeSeq, handling>>

HandleCancel(req) ==
    /\ req.parsed.kind = "cancel"
    /\ CancelThroughRisk(req.parsed.id)
    /\ LET s == FindOrder(book, req.parsed.id)
       IN  Answer(req, IF s = NoSlot
                       THEN Response("UnknownOrderId", <<>>, 0, req.parsed.id)
                       ELSE Response("Accepted", <<>>, book.order[s].quantity, req.parsed.id))
    /\ UNCHANGED <<front, running, tradeSeq>>

(* The risk engine's and the engine's early returns.                       *)
Refusal(o) ==
    IF front # "cli" /\ RunChecks(o) # "Accepted" THEN RunChecks(o) ELSE Verdict(o)

HandleRefused(req) ==
    /\ req.parsed.kind \in {"limit", "market"}
    /\ LET o == Order(req.parsed, req.client)
       IN  /\ \/ front # "cli" /\ RiskReject(o)
              \/ front # "cli" /\ RunChecks(o) = "Accepted" /\ SubmitRejected(o)
              \/ front = "cli" /\ SubmitRejected(o)
           /\ Answer(req, Response(Refusal(o), <<>>, 0, o.id))
    /\ UNCHANGED <<riskVars, front, running, tradeSeq>>

HandleOrder(req) ==
    /\ req.parsed.kind \in {"limit", "market"}
    /\ LET o == Order(req.parsed, req.client)
       IN  Refusal(o) = "Accepted" /\ SubmitAccepted(o)
    /\ handling' = req
    /\ UNCHANGED <<riskVars, front, running, encoder, tradeSeq, last>>

Receive(client, arrival) ==
    LET req == [kind |-> "request", client |-> client, meant |-> arrival.meant,
                damage |-> arrival.damage, parsed |-> arrival.parsed]
    IN  /\ Ready
        /\ \/ HandleError(req)
           \/ HandleCliCommand(req)
           \/ HandleCancel(req)
           \/ HandleRefused(req)
           \/ HandleOrder(req)

Match ==
    /\ MatchUnderRisk
    /\ tradeSeq' = IF event'.kind = "trade" THEN tradeSeq + 1 ELSE tradeSeq
    /\ UNCHANGED <<front, running, encoder, handling, last>>

(* The trades of the call with the numbers they were given.                *)
Numbered ==
    [i \in DOMAIN trades |->
       [buy |-> trades[i].buy, sell |-> trades[i].sell, price |-> trades[i].price,
        quantity |-> trades[i].quantity, sequence |-> tradeSeq - Len(trades) + i - 1]]

Finish ==
    /\ IF front = "cli" THEN Return /\ UNCHANGED riskVars ELSE ReturnThroughRisk
    /\ Answer(handling, Response("Accepted", Numbered, remaining, incoming.id))
    /\ UNCHANGED <<front, running, tradeSeq>>

(* The client has read the answer. *)
ReadAnswer ==
    /\ last # None
    /\ last' = None
    /\ UNCHANGED <<vars, riskVars, front, running, encoder, tradeSeq, handling>>

-----------------------------------------------------------------------------
(* The clients: what they mean and how they write it.                      *)

Users == IF front = "cli" THEN Clients \intersect {0} ELSE Clients

SideWord(side) == Word(IF side = "Buy" THEN "BUY" ELSE "SELL")

Tokens(cmd) ==
    CASE cmd.kind = "limit" -> <<Word("ADD"), Num(cmd.id), SideWord(cmd.side),
                                 Num(cmd.price), Num(cmd.quantity)>>
      [] cmd.kind = "market" -> <<Word("MARKET"), Num(cmd.id), SideWord(cmd.side),
                                  Num(cmd.quantity)>>
      [] cmd.kind = "cancel" -> <<Word("CANCEL"), Num(cmd.id)>>
      [] cmd.kind = "print" -> <<Word("PRINT_BOOK")>>
      [] cmd.kind = "quit" -> <<Word("QUIT")>>

SideByte(side) == IF side = "Buy" THEN 0 ELSE 1

(* The client id in a binary message is whatever its sender puts there.    *)
Message(cmd, claimed) ==
    CASE cmd.kind = "limit" ->
           [type |-> "LimitOrderAdd", side |-> SideByte(cmd.side), client_id |-> claimed,
            order_id |-> cmd.id, price |-> cmd.price, quantity |-> cmd.quantity]
      [] cmd.kind = "market" ->
           [type |-> "MarketOrderAdd", side |-> SideByte(cmd.side), client_id |-> claimed,
            order_id |-> cmd.id, quantity |-> cmd.quantity]
      [] cmd.kind = "cancel" ->
           [type |-> "Cancel", padding |-> 0, client_id |-> claimed, order_id |-> cmd.id]

(* A cancel names its order in tag 41, in tag 11, or has a ClOrdID of its  *)
(* own beside tag 41.                                                      *)
FixBodies(cmd) ==
    CASE cmd.kind = "limit" ->
           {<<Field(35, Word("D")), Field(11, Num(cmd.id)), Field(55, Word("MINI")),
              Field(54, Num(1 + SideByte(cmd.side))), Field(38, Num(cmd.quantity)),
              Field(40, Num(2)), Field(44, Num(cmd.price))>>}
      [] cmd.kind = "market" ->
           {<<Field(35, Word("D")), Field(11, Num(cmd.id)), Field(55, Word("MINI")),
              Field(54, Num(1 + SideByte(cmd.side))), Field(38, Num(cmd.quantity)),
              Field(40, Num(1))>>}
      [] cmd.kind = "cancel" ->
           {<<Field(35, Word("F")), Field(41, Num(cmd.id))>>,
            <<Field(35, Word("F")), Field(11, Num(cmd.id))>>,
            <<Field(35, Word("F")), Field(11, Num(99)), Field(41, Num(cmd.id))>>}

(* Lines of the command line end in a carriage return on some terminals.   *)
(* Binary frames can be longer than the message in them.                   *)
Wires(f, cmd) ==
    CASE f = "text" -> {Tokens(cmd)}
      [] f = "cli" ->
           {[tokens |-> Tokens(cmd), cr |-> b] :
              b \in IF cmd.kind \in {"print", "quit"} THEN {FALSE} ELSE BOOLEAN}
      [] f = "binary" ->
           {Encode(Message(cmd, claimed)) \o rest : claimed \in Clients, rest \in {<<>>, <<0>>}}
      [] f = "fix" -> {Frame(body) : body \in FixBodies(cmd)}

Without1(q, i) == SubSeq(q, 1, i - 1) \o SubSeq(q, i + 1, Len(q))

(* A byte of a field changed: a digit of its number into another digit or  *)
(* into a letter, a letter of its word, the last digit of its tag, the '='.*)
(* The checksum has three digits; none of the numbers is negative.         *)
NextDigit(n) == IF n % 10 = 9 THEN n - 1 ELSE n + 1

DigitsIn(f) ==
    LET n == f.value.value
    IN  IF f.tag = 10 THEN <<n \div 100, (n \div 10) % 10, n % 10>> ELSE Digits(n)

OtherValues(f) ==
    IF f.value.kind = "num"
    THEN LET ds == DigitsIn(f)
         IN  UNION {{Num(NumberOf([ds EXCEPT ![i] = NextDigit(@)])), Mixed(ds, i)} :
                       i \in DOMAIN ds}
    ELSE CASE f.value.text = "D" -> {Word("F")}
           [] f.value.text = "F" -> {Word("D")}
           [] f.value.text = "MINI" -> {Word("MINX")}
           [] OTHER -> {}

Changed(f) ==
    {Field(f.tag, v) : v \in OtherValues(f)}
    \union {Field(NextDigit(f.tag), f.value), Malformed(f)}

(* A message with one byte changed, one field lost, or its end cut off.    *)
Damaged(raw) ==
    {[raw EXCEPT !.fields[i] = f] : <<i, f>> \in
        UNION {{i} \X Changed(raw.fields[i]) : i \in DOMAIN raw.fields}}
    \union {[raw EXCEPT !.fields = Without1(@, i)] : i \in DOMAIN raw.fields}
    \union {[fields |-> SubSeq(raw.fields, 1, i), ended |-> b] :
               i \in 0..(Len(raw.fields) - 1), b \in BOOLEAN}
    \union {[raw EXCEPT !.ended = FALSE]}

Spoilt(cmd, wires, damage) ==
    {[meant |-> cmd, wire |-> w, damage |-> damage] : w \in wires}

(* Lines with a token lost, misspelt, with a letter behind its number or   *)
(* beyond the integers' width; the command line's own words with an        *)
(* argument or a carriage return.                                          *)
SpoiltLines(ts) ==
    {Without1(ts, i) : i \in DOMAIN ts}
    \union {[ts EXCEPT ![i] = t] : i \in DOMAIN ts,
                                  t \in {Word("x"), Mixed(<<1, 0>>, 2), Num(Range64)}}
    \union {Append(ts, Num(1))}

UnusableLines == UNION {Spoilt(cmd, SpoiltLines(Tokens(cmd)), "other") : cmd \in Spoiled}

OwnWords == {PrintBookRequest, QuitRequest}

UnusableCliLines ==
    UNION {Spoilt(cmd, {[tokens |-> ts, cr |-> b] : ts \in SpoiltLines(Tokens(cmd)),
                                                   b \in BOOLEAN}, "other") : cmd \in Spoiled}
    \union UNION {Spoilt(cmd, {[tokens |-> Tokens(cmd), cr |-> TRUE]}
                         \union {[tokens |-> Append(Tokens(cmd), Word("x")), cr |-> b] :
                                   b \in BOOLEAN}, "other") : cmd \in OwnWords}

(* Messages cut short, messages of the other direction, unknown types.     *)
UnusableFrames ==
    UNION {LET bytes == Encode(Message(cmd, 0))
           IN  Spoilt(cmd, {SubSeq(bytes, 1, n) : n \in 0..(Len(bytes) - 1)}
                           \union {[bytes EXCEPT ![1] = b] : b \in {0, 4, 5, 6, 7}},
                      "other") : cmd \in Spoiled}

(* Two messages that differ in the value of their CheckSum at most.        *)
SameButChecksum(raw, other) ==
    LET n == Len(raw.fields)
    IN  /\ other.ended = raw.ended /\ Len(other.fields) = n
        /\ SubSeq(other.fields, 1, n - 1) = SubSeq(raw.fields, 1, n - 1)
        /\ IsField(other.fields[n]) /\ other.fields[n].tag = raw.fields[n].tag

(* Damaged messages, and intact ones that lack a field.                    *)
UnusableFix ==
    UNION {UNION {LET raw == Frame(body)
                      inChecksum == {w \in Damaged(raw) : SameButChecksum(raw, w)}
                  IN  Spoilt(cmd, inChecksum, "checksum")
                      \union Spoilt(cmd, Damaged(raw) \ inChecksum, "other") :
                    body \in FixBodies(cmd)} : cmd \in Spoiled}
    \union UNION {UNION {Spoilt(cmd, {Frame(Without1(body, i)) : i \in DOMAIN body}, "other") :
                          body \in FixBodies(cmd)} : cmd \in {c \in Spoiled : c.kind # "cancel"}}
    \union UNION {Spoilt(cmd, {Frame(<<Field(35, Word("F"))>>),
                               Frame(<<Field(35, Word("F")), Field(41, Word("D"))>>)}, "other") :
                    cmd \in {c \in Spoiled : c.kind = "cancel"}}

Unusable(f) ==
    CASE f = "text" -> UnusableLines
      [] f = "cli" -> UnusableCliLines
      [] f = "binary" -> UnusableFrames
      [] f = "fix" -> UnusableFix

(* What can arrive at a front end from a client, with what its parser      *)
(* makes of it; parsing does not depend on the state of the engine.        *)
CommandsAt(f, client) == Commands[client] \union (IF f = "cli" THEN OwnWords ELSE {})

Arrivals ==
    [f \in FrontEnds |-> [client \in Clients |->
       {[meant |-> a.meant, damage |-> a.damage, parsed |-> Parse(f, a.wire)] :
          a \in Unusable(f) \union UNION {Spoilt(cmd, Wires(f, cmd), "none") :
                                            cmd \in CommandsAt(f, client)}}]]

GatewayNext ==
    \/ \E client \in Users : \E arrival \in Arrivals[front][client] : Receive(client, arrival)
    \/ Match
    \/ Finish
    \/ ReadAnswer

GatewaySpec == GatewayInit /\ [][GatewayNext]_<<vars, riskVars, gatewayVars>>

-----------------------------------------------------------------------------
(* Properties.                                                             *)

(* The request that is being handled or has just been answered.            *)
Request == IF last # None THEN last.request ELSE handling

(* Whatever front end a command came through, and whatever its sender put  *)
(* into the fields the code ignores, the engine is called with the command *)
(* that was meant: sides, signs, byte orders and optional tags come out    *)
(* right.  Only FIX refuses a quantity of zero by itself; the other front  *)
(* ends leave that to the engine.                                          *)
ParsedAsMeant ==
    Request # None /\ Request.damage = "none" =>
        \/ Request.parsed = Request.meant
        \/ /\ front = "fix" /\ Request.meant.kind # "cancel" /\ Request.meant.quantity = 0
           /\ Request.parsed = FixError("InvalidQuantity")

(* A text line with a token lost, misspelt or too large, a binary message  *)
(* cut short or of another type, a FIX message with a byte of a tag or of  *)
(* a value changed, a field lost or its end missing: none of them gets as  *)
(* far as the engine.  The one exception does no harm: parse_validated     *)
(* does not ask whether from_chars read all of tag 10, so a checksum of    *)
(* 000 that lost a digit still counts as 0, and what is carried out then   *)
(* is the command that was meant, for nothing else in the message changed. *)
DamageNeverMisread ==
    Request # None /\ Request.damage # "none" =>
        \/ Request.parsed.kind = "error" /\ last # None /\ last.response = None
        \/ Request.damage = "checksum" /\ Request.parsed = Request.meant

(* The messages a client decodes from a binary reply, in order.            *)
MessagesIn(bytes) ==
    LET from[n \in 0..Len(bytes)] ==
            LET m == Decode(SubSeq(bytes, n + 1, Len(bytes)))
            IN  IF m = NoMessage THEN <<>> ELSE <<m>> \o from[n + WireSize[m.type]]
    IN  from[0]

StatusOf(m) ==
    IF m.type = "Ack" THEN "Accepted"
    ELSE CHOOSE status \in DOMAIN ReasonCode : ReasonCode[status] = m.reason_code

(* The response a client can reconstruct from a binary reply.              *)
FromBinary(bytes) ==
    LET ms == MessagesIn(bytes)
    IN  Response(StatusOf(ms[1]),
                 [i \in 1..(Len(ms) - 1) |->
                    [buy |-> ms[i + 1].buy_order_id, sell |-> ms[i + 1].sell_order_id,
                     price |-> ms[i + 1].price, quantity |-> ms[i + 1].quantity,
                     sequence |-> ms[i + 1].trade_sequence]],
                 IF ms[1].type = "Ack" THEN ms[1].remaining_qty ELSE 0,
                 ms[1].order_id)

(* What a text client can tell of a response: everything but the ids of    *)
(* the trades.                                                             *)
TextAgrees(reply, r) ==
    /\ reply.says = "REJECTED" <=> r.status # "Accepted"
    /\ "reason" \in DOMAIN reply => reply.reason = r.status
    /\ "id" \in DOMAIN reply => reply.id = r.id
    /\ "rest" \in DOMAIN reply =>
         r.remaining = IF reply.rest = Word("FULLY FILLED") THEN 0 ELSE reply.rest.value
    /\ "fills" \in DOMAIN reply =>
         /\ Len(reply.fills) = Len(r.trades)
         /\ \A i \in DOMAIN r.trades :
              /\ reply.fills[i].quantity = r.trades[i].quantity
              /\ reply.fills[i].price = r.trades[i].price

ReportField(report, tag) == Get(report.fields, tag).value

(* The report passes the adapter's own envelope check, answers the order   *)
(* that was sent, and continues the session's numbering.                   *)
ReportAgrees(r) ==
    /\ Envelope(last.reply) = "Ok"
    /\ ReportField(last.reply, 37) = r.id /\ ReportField(last.reply, 11) = r.id
    /\ ReportField(last.reply, 14) = TotalFilled(r) /\ ReportField(last.reply, 151) = r.remaining
    /\ ReportField(last.reply, 39) = 8 <=> r.status # "Accepted"
    /\ ReportField(last.reply, 34) = encoder[last.request.client].seqNum - 1
    /\ ReportField(last.reply, 17) = encoder[last.request.client].execId - 1

(* Prices strictly fall from line to line, across the spread too, and each *)
(* line has what the orders at its price have left.                        *)
ListingAgrees(listing) ==
    /\ \A i, j \in DOMAIN listing : i < j => listing[i].price > listing[j].price
    /\ {listing[i].price : i \in DOMAIN listing}
          = {book.order[s].price : s \in Resting(book)}
    /\ \A i \in DOMAIN listing :
         \E side \in Sides : listing[i].quantity = QueueQuantity(side, listing[i].price)

(* What a client reads from a reply is what the engine answered, for every *)
(* outcome and any number of trades: a binary reply decodes to the whole   *)
(* response, a text reply and a FIX report to the part of it they carry.   *)
(* The JSON form of a message is the message.  The printed book is the     *)
(* book.                                                                   *)
RepliesReadBack ==
    /\ last # None /\ last.response # None =>
         LET r == last.response
         IN  /\ r.id = last.request.meant.id
             /\ front \in {"text", "cli"} => TextAgrees(last.reply, r)
             /\ front = "fix" => ReportAgrees(r)
             /\ front = "binary" =>
                  /\ FromBinary(last.reply) = r
                  /\ \A i \in DOMAIN ReplyMessages(r) :
                       LET m == ReplyMessages(r)[i] IN FromJson(ToJson(m), m.type) = m
    /\ last # None /\ last.request.parsed = PrintBookRequest => ListingAgrees(last.reply)

Holders(b, id) == {s \in Resting(b) : b.order[s].id = id}
OwnedBy(b, id, client) == {s \in Holders(b, id) : b.order[s].owner = client}

(* The report in an answer is true of the books before and after the call. *)
TrueReport(answer, before, after) ==
    LET cmd == answer.request.parsed
        own == OwnedBy(after, cmd.id, answer.request.client)
        status == ReportField(answer.reply, 39)
        done == ReportField(answer.reply, 14)
        left == ReportField(answer.reply, 151)
    IN  /\ cmd.kind = "limit" /\ status \in {0, 1} =>
             \E s \in own : after.order[s].quantity = left
        /\ cmd.kind = "limit" /\ status = 2 => own = {}
        /\ cmd.kind # "cancel" /\ status # 8 =>
             /\ done + left = cmd.quantity
             /\ status = 0 <=> done = 0
             /\ status = 2 <=> left = 0
        /\ cmd.kind = "market" => own = {} \/ status = 8
        /\ status = 4 =>
             \E s \in Holders(before, cmd.id) :
                Holders(after, cmd.id) = Holders(before, cmd.id) \ {s}

(* FixEncoder.cpp: "0 New, 1 PartiallyFilled, 2 Filled, 4 Cancelled".  The *)
(* status of a report is derived from the response alone, yet it tells the *)
(* client where its order is.  A limit order reported New or               *)
(* PartiallyFilled rests with LeavesQty, one reported Filled does not;     *)
(* CumQty and LeavesQty add up to the order.  A market order never rests,  *)
(* although one that found nothing to trade with is reported New.          *)
(* Cancelled means that exactly one order with the id has left the book.   *)
(* If no two sessions use the same ClOrdID that was the only one; if they  *)
(* do, it may be the other session's, and one's own order stays.           *)
ReportMatchesBook ==
    [][front = "fix" /\ last = None /\ last' # None /\ last'.response # None =>
         TrueReport(last', book, book')]_<<vars, riskVars, gatewayVars>>
=============================================================================
