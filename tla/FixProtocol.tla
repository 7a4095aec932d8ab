---------------------------- MODULE FixProtocol ----------------------------
(* The FIX 4.2 adapter (adapters/fix): envelope, parser and encoder.  A    *)
(* message is the sequence of its fields and whether the last one is       *)
(* terminated; what the envelope's two checks see of a field are its       *)
(* length and the sum of its bytes, which are those of its ASCII text.     *)
EXTENDS EngineCommand
LOCAL INSTANCE SequencesExt

Field(tag, value) == [tag |-> tag, value |-> value]

(* What is left of a field without '=', without a tag or with a tag that   *)
(* is not a number.                                                        *)
Malformed(f) == [malformed |-> f]
IsField(f) == DOMAIN f = {"tag", "value"}

(* Length and byte sum of the words the messages are made of.  The time is *)
(* a text of 17 characters, the company names are one letter each.         *)
Ascii == [D |-> <<1, 68>>, F |-> <<1, 70>>, MINI |-> <<4, 301>>, MINX |-> <<4, 316>>,
          begin |-> <<7, 425>>, time |-> <<17, 850>>, us |-> <<1, 88>>, them |-> <<1, 89>>]

(* The digits of a number; three are enough here.                          *)
Digits(n) ==
    IF n < 10 THEN <<n>>
    ELSE IF n < 100 THEN <<n \div 10, n % 10>>
    ELSE <<n \div 100, (n \div 10) % 10, n % 10>>

NumberOf(digits) == FoldLeft(LAMBDA n, d : 10 * n + d, 0, digits)

Total(s) == FoldLeft(LAMBDA x, y : x + y, 0, s)

Magnitude(n) == IF n < 0 THEN -n ELSE n
SignLength(n) == IF n < 0 THEN 1 ELSE 0

NumberLength(n) == SignLength(n) + Len(Digits(Magnitude(n)))
NumberSum(n) ==
    45 * SignLength(n) + 48 * Len(Digits(Magnitude(n))) + Total(Digits(Magnitude(n)))

(* The character among the digits is an 'x', byte 120.                     *)
TextLength(t) ==
    CASE t.kind = "word" -> Ascii[t.text][1]
      [] t.kind = "num" -> NumberLength(t.value)
      [] t.kind = "mixed" -> Len(t.digits)
TextSum(t) ==
    CASE t.kind = "word" -> Ascii[t.text][2]
      [] t.kind = "num" -> NumberSum(t.value)
      [] t.kind = "mixed" -> 120 + 48 * (Len(t.digits) - 1) + Total([t.digits EXCEPT ![t.at] = 0])

(* append_field: tag=value<SOH>; '=' is byte 61 and SOH byte 1.            *)
FieldLength(f) == NumberLength(f.tag) + 1 + TextLength(f.value) + 1
FieldSum(f) == NumberSum(f.tag) + 61 + TextSum(f.value) + 1

-----------------------------------------------------------------------------
(* FixMessage.                                                             *)

TagsAt(fs, tag) == {i \in DOMAIN fs : fs[i].tag = tag}

(* TagMap::get: the first field with the tag.                              *)
Has(fs, tag) == TagsAt(fs, tag) # {}
Get(fs, tag) == fs[Min(TagsAt(fs, tag))].value

(* The last "<SOH>10=", 0 when there is none.                              *)
CheckSumAt(fs) ==
    LET at == TagsAt(fs, 10) \ {1} IN IF at = {} THEN 0 ELSE Max(at)

ComputeChecksum(fs) == Total([i \in DOMAIN fs |-> FieldSum(fs[i])]) % 256

LengthOf(fs) == Total([i \in DOMAIN fs |-> FieldLength(fs[i])])

(* From the first "<SOH>35=" up to the last "<SOH>10=".                    *)
ComputeBodyLength(fs) ==
    LET at == TagsAt(fs, 35) \ {1}
    IN  IF at = {} THEN 0 ELSE LengthOf(SubSeq(fs, Min(at), CheckSumAt(fs) - 1))

(* The number a field declares: what from_chars reads of it, whether or    *)
(* not that is all of it; -1 when it starts with no digit.                 *)
Declared(fs, tag) ==
    LET t == Get(fs, tag)
    IN  CASE t.kind = "num" -> t.value
          [] t.kind = "mixed" /\ t.at > 1 -> NumberOf(SubSeq(t.digits, 1, t.at - 1))
          [] OTHER -> -1

(* Mutated form of Envelope; nothing uses it.                              *)
EnvelopeByLengthOnly(raw) ==
    IF ~raw.ended \/ \E i \in DOMAIN raw.fields : ~IsField(raw.fields[i])
    THEN "MalformedField"
    ELSE IF CheckSumAt(raw.fields) = 0 \/ ~Has(raw.fields, 9) THEN "MissingRequiredTag"
    ELSE IF Declared(raw.fields, 9) # ComputeBodyLength(raw.fields) THEN "BodyLengthMismatch"
    ELSE "Ok"

(* tokenize and the two checks of parse_validated.                         *)
Envelope(raw) ==
    LET fs == raw.fields
        before == SubSeq(fs, 1, CheckSumAt(fs) - 1)
    IN  IF fs = <<>> /\ raw.ended THEN "EmptyMessage"
        ELSE IF ~raw.ended \/ \E i \in DOMAIN fs : ~IsField(fs[i]) THEN "MalformedField"
        ELSE IF CheckSumAt(fs) = 0 THEN "MissingRequiredTag"
        ELSE IF Declared(fs, 10) # ComputeChecksum(before) THEN "ChecksumMismatch"
        ELSE IF ~Has(fs, 9) THEN "MissingRequiredTag"
        ELSE IF Declared(fs, 9) # ComputeBodyLength(fs) THEN "BodyLengthMismatch"
        ELSE "Ok"

-----------------------------------------------------------------------------
(* FixParser.                                                              *)

FixError(reason) == [kind |-> "error", reason |-> reason]

HasUint64(fs, tag) == Has(fs, tag) /\ IsUint64(Get(fs, tag))
HasInt64(fs, tag) == Has(fs, tag) /\ IsInt64(Get(fs, tag))

ParseNewOrderSingle(fs) ==
    LET id == Get(fs, 11).value
        side == IF Get(fs, 54) = Num(1) THEN "Buy" ELSE "Sell"
        quantity == Get(fs, 38).value
    IN  IF ~HasUint64(fs, 11) THEN FixError("InvalidClOrdIdFormat")
        ELSE IF ~Has(fs, 55) THEN FixError("MissingRequiredTag")
        ELSE IF Get(fs, 55) # Word("MINI") THEN FixError("UnsupportedSymbol")
        ELSE IF ~Has(fs, 54) THEN FixError("MissingRequiredTag")
        ELSE IF Get(fs, 54) \notin {Num(1), Num(2)} THEN FixError("InvalidSide")
        ELSE IF ~HasUint64(fs, 38) \/ quantity = 0 THEN FixError("InvalidQuantity")
        ELSE IF ~Has(fs, 40) THEN FixError("MissingRequiredTag")
        ELSE IF Get(fs, 40) = Num(2)
        THEN IF HasInt64(fs, 44) THEN LimitOrder(id, side, Get(fs, 44).value, quantity)
             ELSE FixError("MissingPrice")
        ELSE IF Get(fs, 40) = Num(1) THEN MarketOrder(id, side, quantity)
        ELSE FixError("UnsupportedOrdType")

(* OrigClOrdID is preferred, ClOrdID is the fall-back.                     *)
ParseCancelRequest(fs) ==
    IF HasUint64(fs, 41) THEN CancelRequest(Get(fs, 41).value)
    ELSE IF HasUint64(fs, 11) THEN CancelRequest(Get(fs, 11).value)
    ELSE IF Has(fs, 41) \/ Has(fs, 11) THEN FixError("InvalidClOrdIdFormat")
    ELSE FixError("MissingRequiredTag")

(* Steps 1 and 2 of FixSession::handle_message.                            *)
ParseFix(raw) ==
    LET fs == raw.fields
    IN  IF Envelope(raw) # "Ok" THEN FixError(Envelope(raw))
        ELSE IF ~Has(fs, 35) THEN FixError("MissingRequiredTag")
        ELSE IF Get(fs, 35) = Word("D") THEN ParseNewOrderSingle(fs)
        ELSE IF Get(fs, 35) = Word("F") THEN ParseCancelRequest(fs)
        ELSE FixError("UnsupportedMessageType")

-----------------------------------------------------------------------------
(* FixEncoder.                                                             *)

TotalFilled(r) == Total([i \in DOMAIN r.trades |-> r.trades[i].quantity])

(* Mutated form of OrdStatus; nothing uses it.                             *)
OrdStatusByRest(r, quantity, isCancel) ==
    IF r.status # "Accepted" THEN 8
    ELSE IF isCancel THEN 4
    ELSE IF r.remaining = quantity THEN 0
    ELSE IF TotalFilled(r) > quantity THEN 2
    ELSE 1

OrdStatus(r, quantity, isCancel) ==
    IF r.status # "Accepted" THEN 8
    ELSE IF isCancel THEN 4
    ELSE IF TotalFilled(r) = 0 THEN 0
    ELSE IF TotalFilled(r) >= quantity THEN 2
    ELSE 1

Frame(body) ==
    LET header == <<Field(8, Word("begin")), Field(9, Num(LengthOf(body)))>>
    IN  [fields |-> header \o body \o <<Field(10, Num(ComputeChecksum(header \o body)))>>,
         ended |-> TRUE]

(* The context of a report: the order as parsed; a cancel does not know    *)
(* the side and the quantity of its order and says Buy and 0.              *)
Context(cmd) ==
    IF cmd.kind = "cancel" THEN [id |-> cmd.id, side |-> "Buy", quantity |-> 0]
    ELSE [id |-> cmd.id, side |-> cmd.side, quantity |-> cmd.quantity]

ExecutionReport(cmd, r, seqNum, execId) ==
    LET ctx == Context(cmd)
        status == Num(OrdStatus(r, ctx.quantity, cmd.kind = "cancel"))
    IN  Frame(<<Field(35, Num(8)), Field(49, Word("us")), Field(56, Word("them")),
                Field(34, Num(seqNum)), Field(52, Word("time")),
                Field(37, Num(ctx.id)), Field(11, Num(ctx.id)), Field(17, Num(execId)),
                Field(39, status), Field(150, status),
                Field(54, Num(IF ctx.side = "Buy" THEN 1 ELSE 2)), Field(55, Word("MINI")),
                Field(14, Num(TotalFilled(r))), Field(151, Num(r.remaining))>>)
=============================================================================
