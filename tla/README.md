# MiniExchange in TLA+

A model of the MiniExchange sources: what the parts do, step by step, in TLA+;
small instances that TLC explores exhaustively; and theorems that the TLA+ proof
system checks for every value of the constants. Every definition that models
code is listed in `PROJECT.json` under `map` with the lines it stands for.

## 1. The system

### Parts and their state

| Part | State | Operations |
|---|---|---|
| `SpscRingBuffer` (`lockfree_queue/`) | two atomic cursors, a power-of-two array of slots | `try_push`, `try_pop`, `size` |
| `OrderPool`, `PriceLevel`, `OrderBook` (`orderbook/`) | slots with a free list threaded through them, intrusive doubly linked lists per level with a cached total, two price trees, an id index | `acquire`, `release`, `push_back`, `remove`, `reduce_quantity`, `add_order`, `remove_order`, `find_order`, `best_bid`, `best_ask` |
| `MatchingEngine` (`engine/`) | the book, the last accepted id of each client, an incremental self-trade index, sequence numbers | `submit` (limit, market), `cancel`; calls the event sink |
| `RiskEngine` (`risk/`) | the reference price of the band | checks before `submit`, reference update after it; `cancel` passes through |
| Exchange server (`apps/exchange_server/`) | an I/O thread, an engine thread, two rings, an eventfd, two shutdown flags, the wakeup coalescer | frame handler, drain handler, engine loop, signal handler, shutdown |
| `TcpServer` (`adapters/tcp/`) | connections with read and write buffers, client id to descriptor table, epoll registrations | accept, read and framing, write, arm and disarm, close, `send_to_client`, `request_shutdown` |
| `UdpFeedPublisher`, `QueuedEventSink` (`adapters/udp/`) | tracked best level per side, message numbers, snapshot counter; ring of events with a drop counter | the three sink events, snapshot trigger, `offer`, `drain_once`, the feed thread |
| `BookBuilder` (`adapters/udp/`) | last number, top, anchored and stale flags | `on_message` |
| FIX session, parser and encoder (`adapters/fix/`) | MsgSeqNum and ExecID counters per session | `handle_message`: envelope check, parse, submit or cancel, execution report |
| Binary and JSON codecs (`adapters/binary_protocol/`) | none | `encode`, `decode`, `parse_binary`, `render_binary`, `to_json`, `from_json` |
| Text protocol, command line (`adapters/text_protocol/`, `apps/cli/`) | whether the loop goes on | `parse`, `render`, `PRINT_BOOK`, `QUIT` |
| Strategies and runner (`strategy/`, `apps/strategy_runner/`) | the maker's two remembered ids and its reference; the momentum window and probe counters; trades not yet delivered | `on_tick`, `on_trade`, `requote`, the tick and settle loops |
| Benchmarks, workload generator (`apps/benchmark/`, `tools/`) | none of the exchange | not modelled |

A frame goes client → `TcpServer` → inbound ring → engine thread → `RiskEngine` →
`MatchingEngine` → `OrderBook`, and its response comes back through the outbound
ring and the eventfd. The events of a call go through the event ring to the
feed thread, which publishes datagrams that subscribers turn into a view. The
FIX session and the strategies call the risk engine directly, the command line
calls a bare matching engine.

### What is hard about it

* Two threads share rings without locks, and the wakeup between them is
  coalesced: it must never be skipped for a response nobody has taken, and
  shutdown must get through whichever thread is waiting for what.
* The event loop is edge-triggered: anything left unread or unsent without a
  later event is stuck; a peer may read between `EAGAIN` and the arming of
  `EPOLLOUT`; descriptor numbers are reused while responses are under way.
* The book is kept in five structures that are updated in different places and
  orders (lists, totals, index, pool, self-trade counts), some of them read after
  the thing they describe has been released.
* Order ids are unique per client, the id index is keyed by id alone.
* The pool is checked once, before matching; the remainder is added after it.
* The feed is derived from events alone and sent over a network that loses,
  repeats and reorders.
* A strategy knows its orders by two remembered ids, hears of its fills only after
  the handler that caused them has returned, and then in batches.
* The same command travels as a line, as bytes in network order or as FIX fields,
  and must arrive as meant or not at all.

### What should hold

The ring is a bounded FIFO queue. The linked structures are a book. The book is
never crossed, levels are FIFO, slots are neither leaked nor shared, totals, index
and self-trade counts agree with what rests. Fills go to the best price and the
oldest order. Each client's order is opened once, shrinks by trades both sides
accept, and is closed once. Nothing rests around the risk checks. While the server
runs no frame is lost or answered twice, an answer goes to the client that sent the
frame, and responses keep their order. A subscriber's view that is not flagged
stale is what was published. A request that was damaged on its way is never taken
for another one, and a reply says what happened.
A settled tick leaves the maker with one full quote on each side. The
hazards behind these are listed in `PROJECT.json` with the lines where they bite.

## 2. Modules

| Module | Models | Used by |
|---|---|---|
| `SpscRingBuffer` | the ring, one action per access to shared memory | `BoundedFifo` is what it promises |
| `OrderBook` | a book as a value: sequences, totals, index, free list, and the operations | extended by the engine and the intrusive book |
| `IntrusiveBook` | the same book as it lies in memory | `BookSpec` is what it promises: `OrderBook`'s operations |
| `MatchingEngine` | `submit` and `cancel`, one step per loop iteration | `OrderLifecycle` is what it promises a client |
| `RiskEngine` | checks and reference price, composed with `MatchingEngine` | |
| `ExchangeServer` | I/O thread, engine thread, rings, eventfd, signal, shutdown | |
| `TcpServer` | connections, framing, back-pressure, epoll | |
| `UdpFeed` | publisher and book builder as operators on their states | |
| `MarketDataFeed` | `MatchingEngine` with event ring, feed thread, network, subscriber | |
| `EngineCommand` | the commands and the width of their integers | extended by the protocols |
| `TextProtocol`, `BinaryProtocol`, `FixProtocol` | parsers, renderers and codecs as operators | |
| `Gateways` | `RiskEngine` behind the text, binary, FIX and command line front ends | |
| `StrategyRunner` | `RiskEngine` driven by the market maker, the momentum strategy and the runner's loops | |
| `MC*` | the sets of clients and ids of the runs | |
| `*Proofs` | theorems and their proofs | |

How state and actions correspond to the code:

* **SpscRingBuffer.** `head`, `tail` and `storage` are the members. A load of the
  other thread's cursor may return any value from the newest one already seen to
  the current one, which is what coherence allows; acquire and release are what
  makes the slots below a seen cursor safe, so slots are plain memory. `SizeCheck`
  is the engine loop's wait for `size() < capacity()`.
* **OrderBook.** `AddOrder`, `RemoveOrder` and `ReduceOrder` are whole functions:
  the emptied level disappears, `emplace` keeps an index entry that is there,
  `erase` removes the id's entry whichever order it leads to.
* **MatchingEngine.** `Verdict` gives the early returns in the order of the code;
  `FetchLevel` is the head of the outer loop, `Fill` and `CancelOwn` are the two
  branches of the inner one, `Return` rests the remainder. After the fill that
  empties a level, the inner loop's condition reads the freed `PriceLevel`; its
  `head_` was just set to null and nothing has been allocated since, so the model
  takes it to read as empty. Responses and `next_trade_sequence_` are in `Gateways`,
  where somebody reads them.
* **RiskEngine.** `price_band_pct` is a rational fraction; `llround` of a positive
  product rounds halves up.
* **ExchangeServer.** The rings are the queues that `SpscRingBuffer` implements;
  their 64-bit cursors do not wrap.
  The eventfd is its edge: written since `epoll_wait` last reported it. A frame
  is a client and a number; connections stay open here.
* **TcpServer.** The kernel is external and modelled from how the server uses it.
  Bytes are abstracted to units (a frame, an unparsable one, the beginning of
  one, an oversized header), so that partial frames and partial sends happen; a
  response is two units. Frames buffered when the peer's end is read are
  discarded with the connection, as `handle_read` does. The
  engine thread is one action that answers a command. A connection that its own
  error reply closed is destroyed while `handle_read` still uses it; the loop may
  then find an empty buffer or the old bytes. Left out: creation of the sockets,
  `EINTR`, `ECONNABORTED`, and more ready descriptors than one `epoll_wait`
  returns.
* **UdpFeed, MarketDataFeed.** The event ring is a queue and what each thread has
  seen of it: `seen` events that the feed thread's newest load of `tail_` shows, and
  `freed` slots that the engine thread's newest load of `head_` does not show yet.
  So `offer` may drop an event although there is room, and a drain may end with
  events in the ring. That goes for the last drain too: `feed_stop` is relaxed and
  orders nothing. A datagram is a record; the network is "any message
  ever sent may arrive next, or never". One symbol, one client, self-trade
  prevention off. The snapshots are those of the publisher's tracked best: it has
  no access to the book.
* **EngineCommand, TextProtocol, BinaryProtocol, FixProtocol.** A line is its
  tokens, a token a word, a number, or digits with a letter among them. A binary message
  is its bytes, in a number
  system where a byte has `Base` values and an integer `Width` bytes, so that byte
  order and sign are real and the sets stay small. A FIX message is its fields and
  whether the last one is terminated; the envelope sees of a field its length and
  the sum of its bytes, which are computed from the digits and the words as ASCII.
  The declared checksum and length are what `from_chars` reads before it stops
  (`Declared`): `parse_validated` does not ask whether it stopped at the end.
  Tag 52 is a text of 17 characters, the names in tags 49 and 56 one letter each.
* **Gateways.** One front end per behaviour, as in a process. `Receive` is the
  handler up to the engine; `Match` the engine's steps; `Finish` the return with
  the rendering of the response and the use of the encoder's numbers. The command
  line leaves the owner at `ClientId{}` and has no risk engine. Queues, framing and
  the busy reply are in `ExchangeServer` and `TcpServer`. The clients are external:
  they write the commands they mean in every form the parsers accept, and also
  lines, frames and messages that lost or changed something.
* **StrategyRunner.** A handler's engine calls are computed when it starts and made
  one after another, each step by step. This is exact because nothing else runs
  in between and a handler's calls do not depend on the responses of earlier
  calls. The ids to remember are taken when the call returns (`Tracked`), the
  trades are collected when they happen (`EngineRuns`) and handed out by `Drain`.
  The runner has no other clients; `OtherSubmits` adds one between ticks, because
  the strategies are written against the engine's interface and not for one
  process.

Definitions marked as mutated forms are variants that the properties must reject;
no specification uses them.

## 3. Runs

| Run | Instance | Shows |
|---|---|---|
| `spsc_ring` | capacity 2, two items, 5 pushes | the ring is a bounded FIFO, no slot is touched by both threads, a push after a size check succeeds, every item is popped |
| `engine_book` | 2 clients, 4 ids, 2 prices, quantities 0 to 2, pool of 3, CancelResting | the book is never crossed, its structures agree, price-time priority |
| `venue_shared_ids` | risk and engine, both policies, 2 clients sharing ids, 3 prices, pool of 2 | no self-trade, exact self-trade index, order lifecycle, a slot for the remainder, risk limits on what rests |
| `intrusive_book` | 2 ids (reused freely), 2 prices, pool of 3 | lists, free list and index in memory implement `OrderBook` |
| `server_threads` | 2 clients, 2 frames each, rings of 1 and 2 | no frame is lost or answered twice while the threads run, responses are in order; no lost wakeup; shutdown ends both threads |
| `tcp_connections` | 2 clients, 2 units, 1 unit of kernel buffer, write cap of 2 | tables agree, responses reach their client only, no stuck input or output, write buffers drain |
| `feed_view` | 1 client, 3 ids, quantity 1, event ring of 2, snapshot every 2 messages | a view not flagged stale is what was published; the queued publisher equals a direct one |
| `strategy_session` | 6 ticks, 525 configurations, 3 clients, pool of 5, cut-off of 8 rounds | the maker's remembered ids account for its orders, a settled tick has a full two-sided quote, the cascade ends before the cut-off |
| `gateways` | 4 front ends, 2 clients, ids 10 (shared) and 18, prices 1, 2 and -2, quantities 0 to 3, bytes of 16 values, integers of 2 bytes, 3 FIX reports | commands arrive as meant, damaged requests are never taken for others, replies read back, FIX status is what became of the order |

The bounds are small but reach the cases that matter: rings of one and two are
full and empty in turn; three slots hold two levels on one side, or two orders in
one level and one opposite them, and are exhausted; quantities of 1 and 2 give
partial fills on either side and sweeps over two levels; a second client makes
self-crossing and shared ids possible; a cap of two units is reached by one
response that the kernel takes half of. `feed_view` uses quantity 1 because
the network already multiplies the states; partial fills reach the publisher only
in `feed_phantom`. The strategies' quotes are smaller than, equal to and larger
than the orders that hit them, the drift turns round within the six ticks, and
windows hold no, one or several trades. Ids 10 and 18 have two different bytes
each, both clients use 10, and one of the FIX cancels of 10 has checksum 000, the
only one that survives the loss of a digit; a negative price and a quantity above the
ceiling travel over every wire;
each of the spoiled commands is cut at every byte, loses every field or token and
has every digit of every field changed into another digit and into a letter. Numbers
that only grow (ids, pushes, frames,
units, ticks, reports) bound the runs. Only `gateways` turns deadlock checking off:
`QUIT` ends the command line, and the FIX sessions end at the bound on reports.

Three runs show where the code does something other than a document, comment or
test says. Each checks one property and ends in a counterexample:

| Run | Property | What happens |
|---|---|---|
| `engine_shared_ids_index` | `IndexAgreesWithLists` | two clients rest the same id; the second one has no index entry, and cancelling by that id erases the shared one (CHARTER.md says index and lists never disagree) |
| `server_spin` | `SpinEnds` | the engine thread fills the outbound ring in one busy burst; the I/O thread is only woken when the inbound ring reads empty, so nobody makes room. In production sizes this takes 65536 responses without one empty poll |
| `feed_phantom` | `NoPhantomBest` | an order behind the tracked best, or the remainder of a crossing order, rests unknown to the publisher; a later order that trades with it is published as a best price at which nothing rests |

Other places where the models and the words around the code differ, without a run
of their own:

* `main.cpp:340` wants the I/O thread "woken to flush" the last responses;
  `request_shutdown` follows at once, and `run()` may see it before the eventfd and
  leave with responses in the ring. `EveryFrameAccounted` therefore says nothing of
  the end: such a response is in the ring, and nobody will send it.
* `run_feed_publisher` does "one final drain so nothing queued right before shutdown
  is lost". Its load of `feed_stop` is relaxed, so the drain may still load an old
  `tail_` and end with events in the ring (`DrainEnds`).
* `parse_validated` checks of `from_chars` only the error code, not where it
  stopped: `10=00x` counts as checksum 0. `DamageNeverMisread` says that this is
  harmless for one changed byte, as the rest of the message is then intact.
* "4 Cancelled" in a FIX report is about the id, not the session's order: when two
  sessions rest the same ClOrdID it may be the other one's that left
  (`ReportMatchesBook`).
* `handle_accept` says of `EMFILE` "keep draining" and leaves the loop; queued
  connections then wait for the next one to arrive.
* The market maker "keeps a live two-sided quote at all times". `SettledTwoSided`
  holds at the end of a tick in the runner. With another client it need not: a
  quote can be taken between ticks, and when the maker's own new quote trades on
  arrival, `resting_order_removed` is about the other order, so `on_trade` forgets
  a quote of its own that still rests (`QuotesTracked` names this exception).
  Drift does not make "quotes cross previous quotes": they are cancelled first.
* `ord_status_for` calls status 0 "accepted, resting, nothing filled yet"; a market
  order that found nothing to trade with is reported that way and does not rest.
* The command line does not take `QUIT` with a carriage return for `QUIT`.
* A binary reject of reason 6 is a parse error or `SelfTradePrevented`;
  `Message.hpp` says so. A client tells them apart by the order id, if it uses no
  order 0.

### Fairness

* `spsc_ring`: a consumer that polls eventually loads the newest `tail_` (an atomic
  store becomes visible in finite time) and calls that were started are finished.
  The producer is never made to push.
* `server_threads`, `server_spin`: weak fairness of each thread. The engine thread
  yields and never blocks; the I/O thread blocks only in `epoll_wait` with nothing
  ready. Clients and signals are not fair. `AllAnswered` excuses the wait that
  `server_spin` shows.
* `tcp_connections`: weak fairness of the I/O thread and of clients that read;
  nothing else is made to happen.
* `strategy_session` and `gateways` are single-threaded and check safety only; that
  a tick settles is stated as a bound on its rounds (`CascadeSettles`).

## 4. Proofs

| Theorem | Module | For every ... |
|---|---|---|
| `RingInvariantHolds`, `NoSlotRaceHolds`, `PoppedInOrderHolds`, `CheckedPushSucceedsHolds`, `ImplementsFifoHolds` | `SpscRingBufferProofs` | capacity, item set, number of pushes |
| `AddOrderKeeps`, `RemoveOrderKeeps`, `ReduceOrderKeeps` | `OrderBookProofs` | pool, prices, ids, book |
| `EngineInvariantHolds`, `TypesHold`, `BookUncrossedHolds`, `SlotsAccountedForHolds`, `LevelsAreFifoHolds`, `IndexNeverDanglesHolds`, `RestFindsSlotHolds`, `PriceTimePriorityHolds` | `MatchingEngineProofs` | pool, prices, quantities, clients, ids, shared or not, policy, with or without self-trade prevention |
| `OwnIdsHold`, `IndexAgreesWithOwnIds`, `SelfCrossExactHolds`, `NoSelfTradeHolds` | `MatchingEngineProofs` | the same; the second where no two clients use the same id |
| `ImplementsLifecycleHolds`, `LevelTotalsExactHolds` | `LifecycleProofs` | the same, shared ids included |
| `EngineInvariantUnderRisk`, `IndexNeverDanglesUnderRisk`, `RestFindsSlotUnderRisk`, `OwnIdsUnderRisk`, `SelfCrossExactUnderRisk`, `NoSelfTradeUnderRisk`, `ImplementsLifecycleUnderRisk`, `LevelTotalsExactUnderRisk`, `ReferenceIsLastTradeHolds`, `RestingWithinLimitsHolds` | `RiskEngineProofs` | the same, and every band, ceiling, tick size and initial reference |
| `ServerSafe`, `ServerTypeCorrect`, `ServerAccountsForFrames`, `ServerKeepsOrder`, `ServerLosesNoWakeup` | `ExchangeServerProofs` | set of clients, number of frames, capacities of the two rings |
| `TcpSafe`, `TcpTypeCorrect`, `TcpRouting`, `TcpDeliversToOwner`, `TcpNothingStuck` | `TcpServerProofs` | finite set of peers, set of descriptors, frame contents, socket room, bound on write buffers |
| `FeedInvariantHolds`, `FeedTypesHold`, `ViewConsistentHolds`, `CaughtUpViewIsLiveHolds`, `QueuedEqualsDirectHolds` | `MarketDataFeedProofs` | engine, ring capacity, snapshot interval |

*Ring.* `RingInvariant` is inductive: each thread's last sight of the other's cursor
lies between the two, the distance from it is at most the capacity, a call past its
early return has room or an item, and every slot in between holds what was pushed
there. The properties alone are not inductive, because they say nothing of what a
thread decided on a value that has since moved. The refinement maps the queue to
the slots from `head_` to `tail_`; pushes and pops take effect at the publishing
stores and every other step is a stutter.

*Book.* `SlotsAccounted` (every resting order in its own level once and nowhere else,
every other slot in the free list once) is kept by each operation; it is
what makes `Without` take out exactly one node. With it, `InArrivalOrder` and
`IndexLeadsHome` are kept too. `BestExists` uses that a set of 64-bit prices has
least and greatest members.

*Engine.* `EngineInvariant` adds to the sound book what a call in progress relies on:
its limit passed validation, the inner loop is at the best level of the other
side and crosses it, a limit order still has a free slot, and all that rests is
numbered below the next sequence number. `BookUncrossed` needs it where a
remainder comes to rest: the loop was left because the best opposite level does
not cross, so no opposite order does. `PriceTimePriority` needs it at a fill:
the level fetched by the outer loop is still the best one after any number of
fills, and its front is its oldest order. These theorems are about `Spec`, the
engine on its own. `EngineInvariant` is in no run; its conjuncts are those that the
proof needs.

*Ownership.* `StepShapes` says once what a step does to the set of resting orders:
nothing, one order out, one order in, or one made smaller. `OwnIdsInvariant` then
follows from the watermark: an order in the book has an id its owner's watermark
has reached, a new one has a higher id. With `IdsAreDisjoint` no two resting
orders share an id, so `emplace` never meets an entry and `erase` removes the
right one: `IndexAgreesWithOwnIds`. `engine_shared_ids_index` shows that the
hypothesis is needed. `SelfCrossExact` is proved as `CountsExact`, a count per client,
side and price. A count that goes down was not 0, since the order that leaves is
one of those it counts. `NoSelfTrade` needs `NoOwnInReach`: under RejectIncoming the
order passed `would_self_cross`, and no step of the call puts an order of its
owner in its way.

*Lifecycle.* The refinement maps an order's key (owner and id) to what is left of it,
in the book or in the call. `OwnIdsInvariant` makes that a function, `OpenShown` says
that these are all the open orders, and `RestingAlive` that an order with nothing
left never rests. A fill changes two keys in one abstract step; the last part of a
call closes or keeps one.

*Risk.* `RiskSpec` has the engine's actions with guards before and the reference
after them, so every one of its steps is a step of the engine's `Next` or leaves
the engine alone, and `EngineInvariant` carries over, as do the results on ownership
and the lifecycle. `ReferenceIsLastTrade` takes
a history of the last trade and the fact that, during a call, the trades
collected so far end with it. `RestingWithinLimits` is strengthened to the order
being matched and to the trades of the call: an order passes the checks before
it is matched, matching only makes quantities smaller, and trades take their
price from what rests.

*Totals.* `QueueQuantity` is a recursive function on the positions of a queue.
`AllNumbers` (a set of naturals that holds 0 and every successor is all of them, from
the well-foundedness of `<`) is the induction: with it the recursion has a
solution, and any list of partial sums that obeys it ends in the sum. The proofs
give such a list for the queue with an order appended, taken out or made smaller. Each
operation then changes one level's total by what it changes in that level's sum.
`RestingAlive` from the lifecycle gives the second half, that nothing rests empty.

*Server.* The outbound ring, the command the engine thread holds and the inbound ring
are one queue, `InFlight`, that a pop and a push leave as it is. `Accounts` says
that a client's frames stand in it in order, after all of its engine responses,
and that every frame read is in it or answered, never both and never twice. The
property alone is not inductive: it needs `Places`, that a batch is handled to its
end before the next wait and that `handle_read` goes no further than what it
appended. `NoLostWakeup` is inductive next to it: a push leaves the coalescer
owing the write, and an I/O thread that took the edge has the eventfd in its batch
or is draining.

*TCP.* `Tables` is what every step keeps of the kernel's and the server's tables: a
descriptor is of one open peer, ids below `next_client_id_` are in use at most once, a
write buffer holds units for its own client, and what a peer received is of the
one connection it had. Descriptors are given out again and ids are not, so `Owned`
and `Issued` speak of ids. That an id is left for every peer takes a count: ids used
are at most the peers accepted. `Loop` is what the edge-triggered loop owes
each connection (`Served`): no whole frame is left in its read buffer, readable
bytes have an event that is ready or in the batch in hand, and buffered output is
armed unless it is being flushed. `NothingStuck` is `Served` at `epoll_wait`,
where the batch is empty and no flush is under way. A step that closes a
connection is covered once, by `OneClosed` and `CloseServes`, for all five paths
that do. The few facts about finite sets and least elements are hypotheses of the
lemmas (`Counting`, `Ordering`) and are proved last, where the libraries come in;
that keeps the libraries out of the other proofs.

*Feed.* `FeedInvariant` puts four facts next to the engine's invariant. What the
threads have seen of the ring is never more than there is (`RingSeen`). The
publisher's messages are numbered without a gap, a trade message leaves the top
alone and the last message has the live top. A view that is anchored and not stale
has the top of the message it accepted last. And as long as nothing was dropped,
replaying what is in the ring leads the publisher to where direct calls led its
twin. Lost, repeated and reordered messages only meet the third: the
subscriber takes any message sent so far.

The assumptions are those of the `ASSUME`s in the modules; TLC evaluates them on
the runs. `TcpServer` has finitely many peers, positive descriptors, and values for
"no peer", "no descriptor" and "no connection" that are none. `NoOpenOrderAssumption`
keeps the value for "no order" apart from orders.
`IdsAreDisjoint` is a hypothesis of its theorem and not an assumption of the model.

### Only model-checked

* Liveness: `EveryPushIsPopped`, `AllAnswered`, `ShutdownCompletes`, `OutputDrains`.
* `ImplementsBook` and `ListsDoublyLinked`: the lists as they lie in memory.
* The strategy and gateway properties; the latter rest on recursive functions over
  bytes and digits.

## 5. Not modelled

* Benchmarks, the workload generator, argument parsing, the printing of totals and
  the creation of sockets: they have no state that the exchange relies on.
* Overflow inside the engine: prices and quantities are unbounded integers there,
  the width is kept only on the wire. The risk engine's band is a rational number
  and not a `double`.
* The ring cursors' wrap at 2^64, and memory orders weaker than the ones the code
  uses.
* `InternalError`: `dispatch_command` turns an exception into it, and no modelled
  operation throws. `SelfTradePrevented` is reached in `venue_shared_ids` and
  `strategy_session`, not over the wires of `gateways`, which has prevention off.
* A FIX session layer (logon, heartbeats, gap fill): the code has none.
