--------------------------- MODULE BinaryProtocol ---------------------------
(* The binary protocol (adapters/binary_protocol): messages of fixed       *)
(* layout, integers in network byte order, and the JSON form of the same   *)
(* messages.  Integers keep their width: Width bytes of Base values each,  *)
(* held by the host least significant byte first.                          *)
EXTENDS EngineCommand
LOCAL INSTANCE SequencesExt

(* The bytes memcpy sees of an unsigned integer, and back.                 *)
HostBytes(u) == [i \in 1..Width |-> (u \div Base ^ (i - 1)) % Base]
FromHostBytes(bs) ==
    LET upTo[n \in 0..Width] ==
            IF n = 0 THEN 0 ELSE upTo[n - 1] + bs[n] * Base ^ (n - 1)
    IN  upTo[Width]

(* to_network and from_network: htobe64 and be64toh of the bit pattern.    *)
ToNetwork(u) == FromHostBytes(Reverse(HostBytes(u)))
FromNetwork(u) == FromHostBytes(Reverse(HostBytes(u)))

BitPattern(n) == n % Range64
Signed(u) == IF u >= Range64 \div 2 THEN u - Range64 ELSE u

WriteField(v, type) ==
    CASE type = "u8" -> <<v>>
      [] type = "u64" -> HostBytes(ToNetwork(v))
      [] type = "i64" -> HostBytes(ToNetwork(BitPattern(v)))

SizeOf(type) == IF type = "u8" THEN 1 ELSE Width

(* Mutated form of ReadField; nothing uses it.                             *)
ReadFieldUnsigned(in, offset, type) ==
    IF type = "u8" THEN in[offset + 1]
    ELSE FromNetwork(FromHostBytes(SubSeq(in, offset + 1, offset + Width)))

ReadField(in, offset, type) ==
    LET u == FromNetwork(FromHostBytes(SubSeq(in, offset + 1, offset + Width)))
    IN  CASE type = "u8" -> in[offset + 1]
          [] type = "u64" -> u
          [] type = "i64" -> Signed(u)

-----------------------------------------------------------------------------
(* MessageType and the wire sizes.                                         *)
TypeByte == [LimitOrderAdd |-> 1, MarketOrderAdd |-> 2, Cancel |-> 3,
             Ack |-> 4, Reject |-> 5, TradeNotification |-> 6]

WireSize == [LimitOrderAdd |-> 2 + 4 * Width, MarketOrderAdd |-> 2 + 3 * Width,
             Cancel |-> 2 + 2 * Width, Ack |-> 2 + 2 * Width,
             Reject |-> 2 + Width, TradeNotification |-> 2 + 5 * Width]

(* The fields encode writes after the type byte, in order.                 *)
Written ==
    [LimitOrderAdd |-> <<<<"side", "u8">>, <<"client_id", "u64">>, <<"order_id", "u64">>,
                         <<"price", "i64">>, <<"quantity", "u64">>>>,
     MarketOrderAdd |-> <<<<"side", "u8">>, <<"client_id", "u64">>,
                          <<"order_id", "u64">>, <<"quantity", "u64">>>>,
     Cancel |-> <<<<"padding", "u8">>, <<"client_id", "u64">>, <<"order_id", "u64">>>>,
     Ack |-> <<<<"padding", "u8">>, <<"order_id", "u64">>, <<"remaining_qty", "u64">>>>,
     Reject |-> <<<<"reason_code", "u8">>, <<"order_id", "u64">>>>,
     TradeNotification |->
         <<<<"padding", "u8">>, <<"buy_order_id", "u64">>, <<"sell_order_id", "u64">>,
           <<"price", "i64">>, <<"quantity", "u64">>, <<"trade_sequence", "u64">>>>]

Encode(m) ==
    LET fields == Written[m.type]
    IN  <<TypeByte[m.type]>>
        \o FlattenSeq([i \in DOMAIN fields |-> WriteField(m[fields[i][1]], fields[i][2])])

(* The fields decode reads after the type byte, in order.                  *)
Read ==
    [LimitOrderAdd |-> <<<<"side", "u8">>, <<"client_id", "u64">>, <<"order_id", "u64">>,
                         <<"price", "i64">>, <<"quantity", "u64">>>>,
     MarketOrderAdd |-> <<<<"side", "u8">>, <<"client_id", "u64">>,
                          <<"order_id", "u64">>, <<"quantity", "u64">>>>,
     Cancel |-> <<<<"padding", "u8">>, <<"client_id", "u64">>, <<"order_id", "u64">>>>,
     Ack |-> <<<<"padding", "u8">>, <<"order_id", "u64">>, <<"remaining_qty", "u64">>>>,
     Reject |-> <<<<"reason_code", "u8">>, <<"order_id", "u64">>>>,
     TradeNotification |->
         <<<<"padding", "u8">>, <<"buy_order_id", "u64">>, <<"sell_order_id", "u64">>,
           <<"price", "i64">>, <<"quantity", "u64">>, <<"trade_sequence", "u64">>>>]

(* The message of type t at the front of in, field by field.               *)
ReadMessage(in, t) ==
    LET fields == Read[t]
        offset[i \in DOMAIN fields] ==
            IF i = 1 THEN 1 ELSE offset[i - 1] + SizeOf(fields[i - 1][2])
        position(name) == CHOOSE i \in DOMAIN fields : fields[i][1] = name
    IN  [name \in {"type"} \union {fields[i][1] : i \in DOMAIN fields} |->
           IF name = "type" THEN t
           ELSE ReadField(in, offset[position(name)], fields[position(name)][2])]

NoMessage == [type |-> "none"]

(* decode has a case for the first byte and the bytes it will read.        *)
Decodable(in, t) == in # <<>> /\ in[1] = TypeByte[t] /\ Len(in) >= WireSize[t]

Decode(in) ==
    IF \E t \in DOMAIN TypeByte : Decodable(in, t)
    THEN ReadMessage(in, CHOOSE t \in DOMAIN TypeByte : Decodable(in, t))
    ELSE NoMessage

-----------------------------------------------------------------------------
(* GatewayCodec.                                                           *)

(* parse_binary: the client id in the message is not looked at.            *)
ParseBinary(in) ==
    LET m == Decode(in)
        side == IF m.side = 0 THEN "Buy" ELSE "Sell"
    IN  CASE m.type = "LimitOrderAdd" -> LimitOrder(m.order_id, side, m.price, m.quantity)
          [] m.type = "MarketOrderAdd" -> MarketOrder(m.order_id, side, m.quantity)
          [] m.type = "Cancel" -> CancelRequest(m.order_id)
          [] OTHER -> ParseError

(* engine_result_to_reason_code *)
ReasonCode ==
    [DuplicateOrderId |-> 1, UnknownOrderId |-> 2, InvalidQuantity |-> 3,
     InvalidPrice |-> 4, PoolExhausted |-> 5, SelfTradePrevented |-> 6,
     PriceOutOfBand |-> 7, QuantityTooLarge |-> 8, TickSizeMisaligned |-> 9,
     InternalError |-> 10]

Reject(code, id) == [type |-> "Reject", reason_code |-> code, order_id |-> id]

(* Mutated form of ReplyMessages; nothing uses it.                         *)
ReplyMessagesWithoutId(r) ==
    IF r.status # "Accepted" THEN <<Reject(ReasonCode[r.status], 0)>>
    ELSE <<[type |-> "Ack", padding |-> 0, order_id |-> 0, remaining_qty |-> r.remaining]>>

(* The messages render_binary sends for a response, one after another.     *)
ReplyMessages(r) ==
    IF r.status # "Accepted" THEN <<Reject(ReasonCode[r.status], r.id)>>
    ELSE <<[type |-> "Ack", padding |-> 0, order_id |-> r.id,
            remaining_qty |-> r.remaining]>>
         \o [i \in DOMAIN r.trades |->
               [type |-> "TradeNotification", padding |-> 0,
                buy_order_id |-> r.trades[i].buy, sell_order_id |-> r.trades[i].sell,
                price |-> r.trades[i].price, quantity |-> r.trades[i].quantity,
                trade_sequence |-> r.trades[i].sequence]]

RenderBinary(r) ==
    LET ms == ReplyMessages(r) IN FlattenSeq([i \in DOMAIN ms |-> Encode(ms[i])])

RenderBinaryError == Encode(Reject(6, 0))

-----------------------------------------------------------------------------
(* JsonCodec: the keys to_json writes besides "type", and from_json reads. *)
JsonWritten ==
    [LimitOrderAdd |-> {"side", "client_id", "order_id", "price", "quantity"},
     MarketOrderAdd |-> {"side", "client_id", "order_id", "quantity"},
     Cancel |-> {"client_id", "order_id"},
     Ack |-> {"order_id", "remaining_qty"},
     Reject |-> {"reason_code", "order_id"},
     TradeNotification |-> {"buy_order_id", "sell_order_id", "price", "quantity",
                            "trade_sequence"}]

JsonRead ==
    [LimitOrderAdd |-> {"side", "client_id", "order_id", "price", "quantity"},
     MarketOrderAdd |-> {"side", "client_id", "order_id", "quantity"},
     Cancel |-> {"client_id", "order_id"},
     Ack |-> {"order_id", "remaining_qty"},
     Reject |-> {"reason_code", "order_id"},
     TradeNotification |-> {"buy_order_id", "sell_order_id", "price", "quantity",
                            "trade_sequence"}]

ToJson(m) ==
    [key \in JsonWritten[m.type] \union {"type"} |->
       IF key = "type" THEN TypeByte[m.type] ELSE m[key]]

(* The messages with a padding byte: from_json sets it to 0.               *)
Padded == {"Cancel", "Ack", "TradeNotification"}

(* from_json into a message of type t; at() throws when a key is missing.  *)
FromJson(j, t) ==
    IF JsonRead[t] \union {"type"} \subseteq DOMAIN j
    THEN [key \in JsonRead[t] \union {"type"}
                  \union (IF t \in Padded THEN {"padding"} ELSE {}) |->
            CASE key = "type" -> CHOOSE u \in DOMAIN TypeByte : TypeByte[u] = j.type
              [] key = "padding" -> 0
              [] OTHER -> j[key]]
    ELSE NoMessage
=============================================================================
