# TLA+ models of viabtc-server-mac

This directory holds TLA+ models of the trading back end in `src/` and the
TLC configurations that check them. `PROJECT.json` lists the components,
runs, mutants, the map from each definition to the source lines it
translates, the findings, and the hazards of the code.

## The system

- **Match engine** (`src/matchengine`). This is a single-threaded event-loop
  process. Its RPC handlers (`me_server.c`) validate a command. The market
  (`me_market.c`) then matches it against one market's order book and
  settles each fill in the balance ledger (`me_balance.c`). Order, deal
  and balance events go to Kafka through pending lists (`me_message.c`).
  A command runs to completion before the next one is read, so one handler
  is one atomic step. `order.depth` replies are cached for
  `cache_timeout` seconds, and a 60 s timer clears the cache.
- **HTTP access gateway** (`src/accesshttp`). A listener process passes
  accepted sockets to worker processes. Each worker forwards JSON-RPC
  requests to the match engine, price and history services. It keeps a
  timeout table (`nw_state`) that answers 504 when no reply comes in time.
- **Network layer** (`src/network`, `src/utils/ut_rpc_svr.c`). This covers
  server sessions, client reconnects and RPC heartbeats.
- **Market price and alert center** (`src/marketprice`, `src/alertcenter`).
  Only their process bootstrap is under `src/`.

Several collaborators are not under `src/`:

- the decimal library and skiplist;
- `me_update.c` (`balance.update`);
- the persistence and replay code;
- the history writer;
- `nw_ses.c`.

## Modules

| Module | Models | State / actions |
|---|---|---|
| `Balance` | `me_balance.c` | Operators over a ledger `b[user][type][asset]` in which 0 means "no entry": `balance_get`, `balance_add`, `balance_sub`, `balance_freeze`, `balance_unfreeze`, `balance_total`, and `balance_status` (the per-asset totals and entry counts behind `asset.summary`). A refused operation returns the ledger unchanged, which is all the callers see. |
| `Market` | `me_market.c`, the order, `balance.update`, `order.depth`, `order.pending_detail` and `asset.summary` handlers of `me_server.c`, `push_order_message` | Variables: `balance`, `orders`, `asks`, `bids`, `users`, `order_id_start`, `deals` (the deal stream; deal id = index), `messages` (the order stream), `updates` (the applied `balance.update` calls by business_id). Actions: `PutLimit` (`market_put_limit_order`), `PutMarket` (`market_put_market_order`), `Cancel` (`on_cmd_order_cancel` + `market_cancel_order`), `BalanceUpdate` (`on_cmd_balance_update`; `update_user_balance` is in `me_update.c`, not under `src/`, and follows the spec: a repeated business_id and a debit beyond the available balance are refused). `order_book_depth` is the reply of `order.depth`: `DepthScan`/`LevelScan` are the two nested skiplist loops of `get_depth` and `get_depth_merge`, and `DepthLevel` is the merge rounding. `order_query` (`order.pending`) and `order_book` (`order.book`) page a user's list (`UserSeq`, newest first, as `order_id_compare` sorts it) or a side (`SideSeq`, the skiplist order) with the skip and take loops `SkipNodes`/`TakeNodes`; `market_get_status` sums each side. `order_detail` is `order.pending_detail`: `market_get_order` and `get_order_info` (the reported fields, with `deal_stock`, `deal_money` and `deal_fee`, which every fill updates through `TakerFilled` and the maker's `BidMakerFilled`/`AskMakerFilled`). `asset_summary` is `asset.summary` over both assets. The four `execute_*` loops are RECURSIVE operators that repeatedly fill against `BookFirst` of the opposite side. `FillAsk`/`FillBid` are one loop body each, including every ledger call in code order. `order_put` and `order_finish` are translated with their failure paths. |
| `MCMarket` | — | Two users (2 lots of stock, 4 money units each), prices {1,2}, amounts {1,2}, market BID budget 3, taker fee 1/10, maker fee 0 or 1/10, min_amount 1, and at most 4 orders (`OrderIdBound`). One business_id and one change, a withdrawal of 1 lot. Depth limits {1,2}, intervals {0,2}; page offsets {0,1}, limits {1,2}. The users are symmetric (`MCSymmetry`): they start with the same balances. |
| `MessageQueue` | `me_message.c` and the service-unavailable gate of `svr_on_recv_pkg` (`me_server.c`) | Per topic: `pending` (the code's `list_*`), `kqueue` (librdkafka's local queue, bounded by `QueueCap`), `delivered` (the broker), and `pushed` (history). Messages are push counters. Actions: `Command` (the gate passes and a handler starts, with a burst of topics to push), `PushNext` (`push_*_message` + `push_message`), `on_timer` (`produce_list` over every list in one step), `KafkaSend` / `DeliveryFailed` (librdkafka's thread and `on_delivery`). |
| `MCMessageQueue` | — | Two topics. The bursts are those of an order command with no fill, one fill or two fills: `<<orders>>`, `<<deals, orders, orders>>` and `<<deals, orders, deals, orders, orders>>` (each fill pushes its deal, then the maker's UPDATE or FINISH; the taker's PUT or FINISH comes last). `MAX_PENDING_MESSAGE` = 2 in every run. Reliable run: queue bound 2, at most 10 messages. Lossy runs: queue bound 1, at most 8 messages. |
| `AccessHttp` | `on_http_request`, `on_state_timeout`, `on_backend_recv_pkg` (`ah_server.c`); `nw_svr_add_ses`, `nw_svr_close_ses` (`nw_svr.c`) | Session memory is a set of `Slots`. The session cache (`nw_cache`, not in the repository) is a LIFO `freelist` plus `fresh` slots, and its memory keeps its contents when freed. Per slot: `ses_id` (the id field) and a ghost `conn` (which connection really uses it). Also `id_start`, `ses_count`, `open` (the session list), `entries` (the `nw_state` table: seq, slot, remembered id, ghost conn), `backend` (requests the backend owes), `connected`, `sent` (replies to forwarded requests), and `refused` (connections answered at once with 400/404/500). Actions: `Accept` (including the `nw_ses_init` failure path), `Close`, `HttpRequest`, `on_state_timeout`, `on_backend_recv_pkg`, `BackendUp` / `BackendDown`. |
| `MCAccessHttp` | — | Two slots. `MCAccessHttp.cfg`: 3 connections and 2 forwarded requests. `MCAccessHttpClosed.cfg`: 3 connections and 3 requests. |
| `DepthCache` | the `order.depth` cache of `me_server.c`: `process_cache`, `add_cache`, `on_cache_timer`, the cache part of `on_cmd_order_book_depth` and its set-up in `init_server` | Two clocks: `loop_time` (the event loop's, which drives `nw_timer`) and `wall` (`current_timestamp()`). `cache` is `dict_cache` as a function from key to `cache_val` (wall time stamp, result). `timer_due` is when `on_cache_timer` fires next. A depth result is abstracted to the request it answers and the `version` of the book it was computed from. The ghost `superseded` records when each version stopped being the book, and the ghost `gen` in an entry counts clock step-backs before it was stored. `on_cmd_order_book_depth` refuses invalid parameters first, then serves a hit or computes, stores and replies. `on_cache_timer` clears the cache and rearms. The environment has `Tick`, `ClockStepBack` (an administrator or NTP sets the wall clock back) and `BookChange` (any other command). |
| `MCDepthCache` | — | Two accepted parameter lists (symmetric) and one refused. `cache_timeout` 1 tick, timer period 3 ticks, one step back of 3 ticks, 8 ticks, 3 book changes. |
| `RpcClient` | `nw_clt.c` (stream sockets): `nw_clt_start`, `on_connect`, `on_error`/`on_close`, `on_reconnect_timeout`, `on_connect_timeout` + `nw_clt_close`, `clt_close` | Per client, as functions over `Clients`: `started`, `sock` (none / connecting / open), `connected`, `on_connect_called`, `timer` (off / reconnect / connect timeout; `clt->timer` is shared by both), and the peer's `peer_up`. Ghosts `reported` and `reported_twice` count calls of `type.on_close` for one attempt. `nw_clt_start` is one operator with four outcomes: socket failure, immediate failure, immediate success, connect in progress. Actions: `Boot` (`rpc_clt_start` at startup), `on_connect`, `on_close`, `on_reconnect_timeout`, `on_connect_timeout`, `PeerChange`. |
| `MCRpcClient` | — | Two clients (match engine and market price). `SocketFailures` is FALSE in the passing run and TRUE in the socket-failure run. |
| `OrderBook` | spec.md 4.2 (abstract) | What one market promises, without ledger or fees. Variables: `book` (id -> side, user, price, left), `next_id`, `trades`. `Place` picks any fill of the acceptable makers that respects price-time priority (a maker is touched only when every maker ahead of it is used up) and cannot be extended. The remainder of a limit order rests; that of a market order is dropped. `Cancel` removes an order of its owner. `Market` is checked to implement it. |
| `RpcHeartbeat` | `ut_rpc_svr.c` (heartbeat, `on_new_connection`, `on_timer`), `nw_svr_close_ses`, `listener_on_accept` (`ah_listener.c`) | Worker connections to the listener's RPC server. Variables: `ses_list` (the session list in order), `ses_count`, and per worker `age` (`now - last_heartbeat` on the wall clock, in ticks; `privdata` in the code) and the ghost `skew` (the net wall-clock step since the session was last stamped, so `age - skew` is its real silence); `steps`, `hb_timeout`, `declared` (the last timeout it sent); `peer` (down / alive / hung); `phase` (ticks since the sweep timer last fired). `Connect` is `on_new_connection`, `on_heartbeat` is `on_recv_pkg` for `RPC_CMD_HEARTBEAT` with `rpc_heartbeat_parse` (a RECURSIVE parse over the body's fields) and the clamp, `on_timer` is the sweep every `INTERVAL` ticks, `listener_on_accept` picks a worker by `rand() % ses_count` and walks the list. `Hang`, `Exit` and `Restart` are the worker's own behaviour; `ClockStep` steps `current_timestamp()` forward or back, which shifts every `age` at once while the sweep timer keeps loop time. Init has stale `privdata`, as a reused `nw_cache` slot does. |
| `MCRpcHeartbeat` | — | Two workers (symmetric). Interval 2 ticks; timeouts MIN 2, DEFAULT 3, MAX 4 ticks of 1000 ms; declared 1 s, 3 s and 6 s; a live worker beats at least every 2 ticks; one wall-clock step of 2 ticks. |
| `Precision` | `market_create` checks, the fee multiplication, `balance_sub`'s rescale | One fill of a taker ASK on a market that `market_create` accepts, with precisions 0..2. Decimals are exact integers on a 10^-6 grid; the rescale may round either way, because the rounding mode is set in `init_mpd`, which is not under `src/`. |

### Units in `Market`

Amounts are whole lots, prices are whole price units, and a fee rate r means
r / `FeeScale`. The ledger counts stock in 1/`FeeScale` lot and money in
1/`FeeScale` price·lot. This makes every deal and fee of the code an exact
integer, so the model separates the control of matching from rounding.
`Precision` studies the rounding on its own.

## Runs

- **`market_core`** (`MCMarket.cfg`, pass,
  about 27,600 distinct states under user symmetry, 1.5 min). It checks, after every command:
  - `TypeOK`: values have the expected types; no order's left or freeze is
    negative.
  - `FreezeConsistency`: each resting order's freeze equals the collateral
    of what it has left, and each user's FREEZE balance is the sum of those
    freezes.
  - `Conservation`: per asset, the total `asset.summary` reports plus the
    fees reported in the deal stream equals the initial total plus the applied `balance.update`
    changes. The fill loops ignore every `balance_sub` result, so a refused
    subtraction would show up here, and so would a repeated business_id
    applied twice.
  - `NoCrossedBook`: every resting bid is below every resting ask.
  - `BookIndexConsistent`: `asks`/`bids` partition `orders`, and `users`
    indexes exactly the resting orders.
  - `OrderStreamMatchesBook`: an order rests exactly when the stream says
    PUT and not FINISH. FINISH comes last and PUT comes first.
  - `DepthMatchesBook`: for every limit and interval, `order.depth`
    reports each side of the current book exactly: the levels (a price, or
    the multiple of the interval at or above an ask and at or below a bid),
    best first, the first `limit` of them, each with the total left in it.
    The reference is a set-based definition, independent of the loops.
  - `QueriesMatchBook`: `order.pending` pages a user's resting orders
    newest first and `order.book` a side in priority order, from position
    offset + 1 and at most limit of them, with the full count as total;
    `market.summary` counts each side and sums its left. The lists are
    checked to hold exactly the right orders in the right order, and the
    pages to be the right slice of them.
  - `OrderDetailMatchesDeals`: `order.pending_detail` finds an order
    exactly while it rests. The `deal_stock`, `deal_money` and `deal_fee`
    it reports are the sums of the amount, the deal and the fee that order
    paid, over every deal in the deal stream where it was taker or maker.
    `deal_stock` equals what its left has dropped by. The counters are
    updated in eight places over the four loops, and a resting order
    accumulates them over later commands.
  - `ImplementsOrderBook` (a temporal property): `Market` refines
    `OrderBook` under the mapping `book` = the resting orders (side, user,
    price, left), `next_id` = `order_id_start`, `trades` = the deal stream.
    Every command of the code is a `Place` or `Cancel` of the abstract
    book: fills in price-time priority at the makers' prices, stopping only
    when the taker can take no more, and the remainder resting or dropped
    as the order type says.

  All hold. This includes self-trades, fees charged after proceeds, and
  partial fills of several makers in one command.
- **`fee_precision`** (`Precision.cfg`, violation of `FeeChargedExactly`).
  `market_create` accepts stock_prec=1, money_prec=0, fee_prec=1 with money
  stored at 1 digit. A 0.1-lot fill at price 1 with fee 0.1 then charges a
  fee of 0.01, and the rescale rounds it away. This contradicts the spec's
  claim that the precision checks prevent silent precision loss. See
  `findings`.

- **`message_reliable`** (`MCMessageQueue.cfg`, pass, about 9,500 states). The
  only refusal librdkafka gives is QUEUE_FULL. The run checks:
  - `InOrderNoLoss`: per topic, broker ++ local queue ++ pending list is
    exactly what was pushed.
  - `PendingBounded`: a pending list stays at most `MAX_PENDING_MESSAGE` − 1
    plus the most events one command pushes to that topic. The gate is
    checked once per command, so this is its real bound, and it is tight.
  - `EventuallyDelivered` (liveness): every pushed event reaches the broker.
- **`message_lossy`** (`MCMessageQueueLossy.cfg`, pass, about 82,000
  states). librdkafka may also fail with other errors. `OrderPreserved`
  checks that the surviving events keep push order and are never
  duplicated. `MessageQueue` has no type invariant in a run: its only
  non-trivial conjunct, the bound on librdkafka's queue, is kept by the
  model of librdkafka, not by `me_message.c`.
- **`message_loss`** (`MCMessageQueueLoss.cfg`, violation of
  `InOrderNoLoss`). `push_message` frees the message on an error other
  than QUEUE_FULL, and `produce_list` deletes it, so the event of a
  command that succeeded is gone. See `findings`.

- **`http_gateway`** (`MCAccessHttp.cfg`, pass, about 256,000 states,
  20 s). It covers requests racing their timeouts, late backend answers,
  backend drops, and a closed connection's memory being taken by the next
  one. It checks:
  - `ReplyReachesRequester`: a reply never reaches a connection other than
    the requester.
  - `AtMostOneReply`: no request is answered twice.
  - `TypeOK`, which includes `ses_count` = |session list| and no slot
    twice in the free list.
  - `RequestAnswered`: a forwarded request of a connection that stays
    open is eventually answered, by the backend or by the 504.
- **`http_reply_after_close`** (`MCAccessHttpClosed.cfg`, violation of
  `ReplyOnlyToOpenSession`). Connection 1 forwards a request and closes.
  The timeout fires before any new connection takes the slot, and the
  id in the slot still matches, so the 504 is written to the released
  session. `nw_svr_close_ses` never clears the id. See `findings`.

- **`depth_cache`** (`MCDepthCache.cfg`, pass, about 167,000 states,
  3 s). The book changes, the wall clock steps back, and requests hit,
  miss and expire while the timer clears the cache. It checks:
  - `ReplyMatchesRequest`: a depth reply, cached or not, answers the
    parameters of its own request.
  - `CachedDepthFresh`: the staleness bound of spec.md holds while the
    wall clock has not stepped back since the entry was stored. A served
    depth was the book at some moment in the last `cache_timeout`.
  - `CachedDepthBounded`: whatever the wall clock does, a served depth was
    the book at some moment in the last timer period. After a step back,
    `now - cache->time` stays small, and only `on_cache_timer` removes the
    entry. The bound of spec.md alone does not hold then: a variant of
    `CachedDepthFresh` without the step-back condition fails in 5 steps.
    That variant has no run of its own, because spec.md does not say which
    clock `cache_timeout` is measured on.
  - `TypeOK`, which includes: only accepted requests reach the cache.

- **`rpc_client`** (`MCRpcClient.cfg`, pass, 484 states). Two clients,
  with peers that go up and down at will. It checks:
  - `TypeOK`, which includes: `connected` only for an open socket (what
    `rpc_clt_connected` in the gateway relies on).
  - `RetryPending`: a started client that is not connected always has a
    connect in progress or an armed timer.
  - `EventuallyConnected`: a client whose peer eventually stays up ends up
    connected for good.
- **`rpc_client_socket_failure`** (`MCRpcClientSocketFail.cfg`, violation
  of `EventuallyConnected`). A timer calls `nw_clt_start` and `socket()`
  fails: it returns -1 before arming anything, and the caller ignores it,
  so the client is dead for good. See `findings`.
- **`rpc_heartbeat`** (`MCRpcHeartbeat.cfg`, pass, about 874,000 states,
  20 s). Workers connect, beat, hang, exit and restart while the listener
  hands out connections, the sweep timer runs, and the wall clock steps
  forward or back once. The sweep measures silence on the wall clock
  (`current_timestamp()`) but runs on loop time, so the two timing
  properties are stated for sessions stamped since the last step. It checks:
  - `NoFalseTimeout`: the sweep never closes a worker that beats on time,
    even after a reconnect into a slot whose old `privdata` is stale.
  - `SilentDetected`: a connection's silence never exceeds its effective
    timeout (DEFAULT until it declares one, else the declared value
    clamped to [MIN, MAX]) plus one sweep interval.

  Without the step condition, both fail. A forward step makes the next
  sweep close a punctual worker (5 steps), and a step back keeps a hung
  worker open past its bound. spec.md does not say which clock the
  heartbeat timeout uses, so these forms are listed as a hazard, not run.
  - `DispatchWhenAvailable`: `listener_on_accept` always finds the session
    it picked: the `rand() % ses_count` index is within the list.
  - `TypeOK`, which includes every `hb_timeout` within [MIN, MAX].
- **`rpc_client_double_close`** (`MCRpcClientDoubleClose.cfg`, violation
  of `CloseReportedOnce`). An immediate connect failure calls
  `type.on_close` and `reconnect_later`, then `watch_connect` overwrites
  the same timer with the connect timeout, whose `nw_clt_close` calls
  `type.on_close` again. See `findings`.

Each property of a passing run has a mutant in `PROJECT.json`. The
mutant is a plausible slip in one mapped definition, and TLC catches it
under the run's own configuration:

| Mutant | Caught by |
|---|---|
| A flipped `min` | `TypeOK` |
| The BID maker's freeze decremented by amount | `FreezeConsistency` |
| `balance_add` overwriting | `Conservation` |
| The limit loop stopping on equal prices | `NoCrossedBook` |
| The user list not cleaned | `BookIndexConsistent` |
| No FINISH for a filled maker | `OrderStreamMatchesBook` |
| Ties broken by the later id | `ImplementsOrderBook` |
| `update_user_balance` without the repeat check | `Conservation` |
| The bid loop of `get_depth_merge` rounding up like the ask loop | `DepthMatchesBook` |
| The skip loop of the paging handlers written with `i <= offset` | `QueriesMatchBook` |
| The taker's `deal_fee` not updated in a fill | `OrderDetailMatchesDeals` |
| `push_message` producing past a non-empty list | `InOrderNoLoss`, `OrderPreserved` |
| `is_message_block` with `>` | `PendingBounded` |
| `on_timer` flushing only one list | `EventuallyDelivered` |
| `nw_svr_close_ses` without `ses_count--` | `TypeOK` |
| `on_backend_recv_pkg` without the id check | `ReplyReachesRequester` |
| `on_backend_recv_pkg` without `nw_state_del` | `AtMostOneReply` |
| `on_state_timeout` with the id check inverted | `RequestAnswered` |
| `on_cmd_order_book_depth` without its parameter checks | `TypeOK` (`DepthCache`) |
| The cache key without the request body | `ReplyMatchesRequest` |
| `process_cache` without the expiry test | `CachedDepthFresh` |
| `cache_timer` set not to repeat | `CachedDepthBounded` |
| `clt_close` not clearing `connected` on a failed connect | `TypeOK` |
| `on_close` without `reconnect_later` | `RetryPending` |
| `on_connect_timeout` without the `on_connect_called` check | `EventuallyConnected` |
| The heartbeat clamp without the MAX bound | `TypeOK` |
| `on_new_connection` not resetting the timestamp and timeout | `NoFalseTimeout` |
| The sweep stopping after its first close | `SilentDetected` |
| `nw_svr_close_ses` without `ses_count--` | `DispatchWhenAvailable` |

## Bounds and why they are enough

Two prices and two amounts are enough for these cases:

- partial fills from either side;
- a maker that outlives its taker;
- an improved price for the taker;
- an equal-price tie (two orders at the same price, then a taker).

Four orders are enough for these cases:

- a taker that sweeps two makers;
- self-trades;
- cancel after a partial fill.

Balances of 2 lots and 4 money units make both outcomes of every balance
check reachable. A market BID budget of 3 at price 2 leaves an unspent
remainder, which exercises the `amount == 0` exit of the market BID loop.
The one business_id and the 1-lot withdrawal reach every outcome of
`balance.update`: applied, refused because the stock is frozen by an ASK,
and refused as a repeat. A deposit only adds a `balance_add`, which the
fills already exercise, and it more than doubles the run. Depth interval 2
merges the two ask prices into one level and rounds a bid at 1 down to 0;
limit 1 cuts a side of two levels. Page offset 1 is both "skip one" and
"offset = length" for a one-order list; limit 1 cuts a list of two.
Symmetry of the two users is sound here: they start alike, and the
properties (including the refinement, which has no liveness part) treat
them alike.

A taker fee of zero would double the state space without reaching a new
branch of the matching loops. The maker fee takes both 0 and 1/10.

For `MessageQueue`, a gate of 2 lets a list hold an event that
passed the gate and still be below it. The queue bound of 2 makes QUEUE_FULL
come after a direct produce has already taken a slot. Together they reach:
- the direct produce;
- QUEUE_FULL into the list;
- the append to a non-empty list;
- the gate refusing;
- `produce_list` stopping part-way.

The two-fill burst pushes three order events in one command. A list can
therefore pass the gate by more than one event, which is what
`PendingBounded` bounds. With librdkafka errors allowed, the state space
grows with every error combination. The lossy runs therefore keep a queue
bound of 1 and 8 messages, which still reach every error branch.

For `AccessHttp`, two slots and three connections are enough for a
connection to close and the next one to take its memory (the LIFO cache
hands back the last slot freed) while a request of the first is still in
the `nw_state` table. Three requests allow a timeout and a backend answer
to race on one request while another waits. `http_gateway` also checks
liveness, which with three requests takes over ten minutes. Two requests
still reach every race: both can be outstanding, and every mutant of the
run is caught. The violation run keeps three requests.

For `DepthCache`, the wall clock steps back by as much as the timer period,
so an entry stays "young" by its stamp for longer than the period. The
period (3 ticks) is longer than the timeout (1 tick), as 60 s is longer
than a cache timeout of seconds. Eight ticks let the timer fire twice.
Three book changes make an old entry differ from the book in several
ways. The two requests differ in market, limit or interval; nothing
depends on which is which, so symmetry is sound.

For `RpcClient`, two clients show that the clients' timers and sockets
are independent. Every path of the per-client machine is reached within
a few steps, and peers toggling at will reach all of them in every order.
One client alone reaches only 22 states.

For `RpcHeartbeat`, two workers are enough for one to be closed while the
other is picked, and for a restart to land in the memory of a closed
session. The declared values 1 s, 3 s and 6 s reach the MIN clamp, an
in-range value and the MAX clamp; `PEER_PERIOD` = MIN is the boundary at
which a live worker is just on time. A clock step of 2 ticks is the
MIN timeout, so a forward step pushes a punctual worker past it. Ages are
capped at MAX + INTERVAL + 1 + the step, one past the largest value
`SilentDetected` allows even after the clock stepped back.

`OrderBook` is checked only through `market_core`, under its bounds; its
fills range over 0..2, the largest amount.

## Fairness

`Market` has none. The match engine only reacts to client commands, so
its properties are safety properties.

`MessageQueue` assumes weak fairness of `PushNext`, `on_timer` and each
topic's `KafkaSend`:
- a handler runs to completion;
- the 0.1 s timer repeats (`nw_timer_set(&timer, 0.1, true, ...)`);
- librdkafka's thread keeps sending while the broker is up.

`Command` has no fairness, because clients owe nothing. `DeliveryFailed`
has none either.

`AccessHttp` assumes weak fairness only of each `nw_state` entry's
timeout. `nw_state_add` arms a timer for every entry, and the event loop
fires it. Clients, the backend and the network are not fair: a backend
may never answer, and the connection may drop at any time.

`RpcClient` assumes weak fairness of each client's startup, of
`on_connect`, of `on_close`, and of both timer callbacks. The event loop
runs armed timers, and the kernel completes or fails every pending
connect. A connection whose peer is down is eventually reported closed.
The peers are not fair.

`DepthCache` has none: its properties are safety properties. `Tick` is
disabled while the cache timer is due, so the timer fires on time.

`RpcHeartbeat` has none: its properties are safety properties. Time
advances by `Tick`, which is disabled while the sweep is due (so the
timer fires on time) and while a live worker is overdue in real time,
`age - skew` (so a live worker beats within `PEER_PERIOD`).

## Not modelled, and why

- librdkafka itself (abstracted to a bounded queue that may refuse), the
  history writer, the operation log, persistence and
  replay: these are not under `src/`, or are pure I/O.
- `balance.query`: it rescales each balance to `prec_show`, a conversion
  that has no counterpart in the integer ledger of `Market`. `asset.list`
  and `market.list` only echo the configuration.
- The zero entry a rounding rescale can leave in `dict_balance`
  (`me_balance.c:274`): `Market` keeps amounts exact, so no remainder
  rounds away. This is listed as a hazard. The rounding itself is what
  `fee_precision` shows.
- In `DepthCache`, the cache's memory: entries are keyed by the raw
  request text, so the dictionary grows with distinct requests until the
  timer clears it. The `get_depth` failure path (a NULL result after a
  failed allocation) is also left out.
- Process bootstrap (`*_main.c`, `ut_title.c`): there is no state machine
  to check.
- Socket I/O.
- `fini_message` at shutdown (`me_message.c:155`): it sends the pending
  lists once and waits at most 1 s for librdkafka, so events not yet
  delivered are lost. This is listed as a hazard. A property about it would
  be broken by the 1 s bound itself. It is the same loss that
  `InOrderNoLoss` reports for produce errors in the `message_loss` run.

## Plan for later work

1. Compose `MessageQueue` with `Market`, so that each command's burst
   is the events it actually pushes.
2. Compose `RpcHeartbeat` with `RpcClient` (the client side of the
   heartbeat).
