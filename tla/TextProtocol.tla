---------------------------- MODULE TextProtocol ----------------------------
(* The plain text protocol (adapters/text_protocol) and the command line   *)
(* built on it (apps/cli/cli_parser.cpp, console_printer.cpp).  A line is  *)
(* the sequence of its tokens; a line of the command line can also end in  *)
(* a carriage return, which getline leaves in place.                       *)
EXTENDS EngineCommand
LOCAL INSTANCE SequencesExt

(* parse_side. *)
IsSide(t) == t \in {Word("BUY"), Word("SELL")}
SideOf(t) == IF t = Word("BUY") THEN "Buy" ELSE "Sell"

(* text_protocol::parse *)
ParseText(ts) ==
    LET is(cmd, count) == Len(ts) = count /\ ts[1] = Word(cmd) /\ IsUint64(ts[2])
    IN  CASE is("CANCEL", 2) -> CancelRequest(ts[2].value)
          [] is("ADD", 5) /\ IsSide(ts[3]) /\ IsInt64(ts[4]) /\ IsUint64(ts[5]) ->
               LimitOrder(ts[2].value, SideOf(ts[3]), ts[4].value, ts[5].value)
          [] is("MARKET", 4) /\ IsSide(ts[3]) /\ IsUint64(ts[4]) ->
               MarketOrder(ts[2].value, SideOf(ts[3]), ts[4].value)
          [] OTHER -> ParseError

(* text_protocol::render: the outcome, the fills and what remains.         *)
RenderText(r) ==
    IF r.status # "Accepted"
    THEN [says |-> "REJECTED", id |-> r.id, reason |-> r.status]
    ELSE [says |-> "ACCEPTED", id |-> r.id,
          fills |-> [i \in DOMAIN r.trades |->
                       [quantity |-> r.trades[i].quantity, price |-> r.trades[i].price]],
          rest |-> IF r.trades # <<>> /\ r.remaining = 0 THEN Word("FULLY FILLED")
                   ELSE Num(r.remaining)]

RenderTextError == [says |-> "ERROR"]

-----------------------------------------------------------------------------
(* The command line.                                                       *)

PrintBookRequest == [kind |-> "print"]
QuitRequest == [kind |-> "quit"]

(* first_token splits at blanks and tabs only: a carriage return stays     *)
(* attached to the last token.                                             *)
FirstTokenIs(line, w) ==
    /\ line.tokens # <<>> /\ line.tokens[1] = Word(w)
    /\ ~(line.cr /\ Len(line.tokens) = 1)

IsSingleToken(line) == Len(line.tokens) = 1

(* CLIParser::parse *)
ParseCli(line) ==
    IF FirstTokenIs(line, "QUIT")
    THEN IF IsSingleToken(line) THEN QuitRequest ELSE ParseError
    ELSE IF FirstTokenIs(line, "PRINT_BOOK")
    THEN IF IsSingleToken(line) THEN PrintBookRequest ELSE ParseError
    ELSE ParseText(line.tokens)

(* print_response and print_cancel_response: only a cancel names the order.*)
PrintResponse(r, isCancel) ==
    IF r.status # "Accepted" THEN [says |-> "REJECTED", reason |-> r.status]
    ELSE IF isCancel THEN [says |-> "CANCELLED", id |-> r.id, rest |-> Num(r.remaining)]
    ELSE [says |-> "ACCEPTED", fills |-> RenderText(r).fills, rest |-> RenderText(r).rest]

(* print_book: each side from the highest price down, the asks above the  *)
(* bids; a side is a function from the prices of its levels to their       *)
(* total_quantity.                                                         *)
Listed(side) ==
    LET ps == SetToSortSeq(DOMAIN side, LAMBDA p, q : p > q)
    IN  [i \in DOMAIN ps |-> [price |-> ps[i], quantity |-> side[ps[i]]]]

PrintBook(asks, bids) == Listed(asks) \o Listed(bids)
=============================================================================
