--------------------------- MODULE EngineCommand ---------------------------
(* The commands the protocol adapters hand to the engine                   *)
(* (core/NewOrder.hpp, core/EngineCommand.hpp), and the textual values they*)
(* are read from.  A text is a number, digits with one character among     *)
(* them that is none, or a word.  parse_uint64 and parse_int64 take what   *)
(* std::from_chars reads to the end and finds to be within the width.      *)
EXTENDS Integers, Sequences

CONSTANTS Base,    \* values of a byte (256)
          Width    \* bytes of an integer (8)

ASSUME WidthAssumption == Base \in Nat \ {0, 1} /\ Width \in Nat \ {0}

Range64 == Base ^ Width      \* values of an integer (2^64)

LimitOrder(id, side, price, quantity) ==
    [kind |-> "limit", id |-> id, side |-> side, price |-> price, quantity |-> quantity]
MarketOrder(id, side, quantity) ==
    [kind |-> "market", id |-> id, side |-> side, quantity |-> quantity]
CancelRequest(id) == [kind |-> "cancel", id |-> id]
ParseError == [kind |-> "error"]

Word(text) == [kind |-> "word", text |-> text]
Num(n) == [kind |-> "num", value |-> n]
Mixed(digits, at) == [kind |-> "mixed", digits |-> digits, at |-> at]

(* parse_uint64 and parse_int64 succeed.                                   *)
IsUint64(t) == t.kind = "num" /\ t.value \in 0..(Range64 - 1)
IsInt64(t) == t.kind = "num" /\ t.value \in (-(Range64 \div 2))..(Range64 \div 2 - 1)
=============================================================================
