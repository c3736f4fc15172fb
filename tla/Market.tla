------------------------------- MODULE Market -------------------------------
(***************************************************************************)
(* One market of the match engine: the order book of me_market.c, the    *)
(* balance ledger of me_balance.c it settles against, and the order and   *)
(* deal streams it pushes (me_message.c), driven by the RPC handlers of   *)
(* me_server.c.  The engine runs every command to completion on a single *)
(* event-loop thread, so each handler is one atomic action; the matching *)
(* loops are RECURSIVE operators over the sorted opposite book.           *)
(*                                                                         *)
(* Units.  Amounts are whole lots and prices whole price units; a fee    *)
(* rate r stands for r / FeeScale.  The ledger counts stock in            *)
(* 1/FeeScale lot and money in 1/FeeScale price-unit-lot, so every deal  *)
(* and fee of the code is an exact integer here: a deal of amount x at    *)
(* price p moves x*FeeScale stock and p*x*FeeScale money, and a fee at    *)
(* rate r on them is x*r and p*x*r.                                       *)
(***************************************************************************)
EXTENDS Balance, Integers, Sequences, FiniteSets, FiniteSetsExt, SequencesExt

CONSTANTS
    Users,            \* user ids that send commands
    Prices,           \* limit prices (price units)
    Amounts,          \* limit and market ASK amounts (lots)
    MarketBidAmounts, \* market BID amounts (money units)
    TakerFees,        \* taker fee rates, numerators over FeeScale
    MakerFees,        \* maker fee rates, numerators over FeeScale
    FeeScale,         \* denominator of the fee rates
    MinAmount,        \* market min_amount (lots)
    InitStock,        \* [Users -> Nat]: available stock at start (lots)
    InitMoney,        \* [Users -> Nat]: available money at start (money units)
    DepthLimits,      \* order.depth limits (levels per side)
    DepthIntervals,   \* order.depth intervals (price units; 0: no merge)
    PageOffsets,      \* order.pending / order.book offsets
    PageLimits,       \* order.pending / order.book limits
    BusinessIds,      \* balance.update business_id values
    BalanceChanges    \* balance.update changes: <<asset, change in lots or money units>>

ASSUME /\ Prices \subseteq Nat \ {0} /\ Amounts \subseteq Nat \ {0}
       /\ MarketBidAmounts \subseteq Nat \ {0}
       /\ FeeScale \in Nat \ {0}
       \* on_cmd_order_put_*: a fee must lie in [0, 1)
       /\ TakerFees \cup MakerFees \subseteq 0 .. FeeScale - 1
       /\ MinAmount \in Nat
       /\ DepthLimits \subseteq Nat /\ DepthIntervals \subseteq Nat
       /\ PageOffsets \subseteq Nat /\ PageLimits \subseteq Nat
       /\ BalanceChanges \subseteq {"stock", "money"} \X Int

Stock == "stock"
Money == "money"
Assets == {Stock, Money}

\* MARKET_ORDER_SIDE_*, MARKET_ORDER_TYPE_*, ORDER_EVENT_* (me_market.h,
\* me_message.h)
ASK == "ask"
BID == "bid"
LIMIT  == "limit"
MARKET == "market"
PUT    == "put"
UPDATE == "update"
FINISH == "finish"

VARIABLES
    balance,         \* dict_balance: [user][type][asset] -> Nat
    orders,          \* m->orders: order id -> order_t, the resting orders
    asks, bids,      \* m->asks, m->bids: ids of the two sides of the book
    users,           \* m->users: user -> ids of that user's resting orders
    order_id_start,  \* the last order id handed out
    deals,           \* the deal stream, one record per fill (deal id = index)
    messages,        \* the order stream: [event, id] records in push order
    updates          \* business_id -> [user, asset, change] of the applied balance.update

vars == <<balance, orders, asks, bids, users, order_id_start, deals,
          messages, updates>>

-----------------------------------------------------------------------------
(* The state a matching loop works on: the whole market and the taker.  *)
Snapshot(taker) ==
    [bal |-> balance, orders |-> orders, asks |-> asks, bids |-> bids,
     users |-> users, deals |-> deals, msgs |-> messages, taker |-> taker]

Commit(st) ==
    /\ balance' = st.bal
    /\ orders' = st.orders
    /\ asks' = st.asks
    /\ bids' = st.bids
    /\ users' = st.users
    /\ deals' = st.deals
    /\ messages' = st.msgs

Msg(event, id) == [event |-> event, id |-> id]

\* The fill amount: the smaller of the taker's and the maker's left.
\* Slip kept for mutation analysis, not used by Spec: the comparison
\* flipped, taking the larger.
MinOf_flipped(x, y) == IF x < y THEN y ELSE x
MinOf(x, y) == IF x < y THEN x ELSE y

\* The asset an order of this side keeps frozen.
FrozenAsset(side) == IF side = ASK THEN Stock ELSE Money

\* order_match_compare: TRUE when o1 sorts before o2 in their book, asks
\* by ascending and bids by descending price, then by ascending id.
\* Slip kept for mutation analysis, not used by Spec: ties broken by the
\* later id first (the comparison of order_id_compare).
OrderBefore_idDesc(o1, o2) ==
    IF o1.side = ASK
    THEN o1.price < o2.price \/ (o1.price = o2.price /\ o1.id > o2.id)
    ELSE o1.price > o2.price \/ (o1.price = o2.price /\ o1.id > o2.id)
order_match_compare(o1, o2) ==
    IF o1.side = ASK
    THEN o1.price < o2.price \/ (o1.price = o2.price /\ o1.id < o2.id)
    ELSE o1.price > o2.price \/ (o1.price = o2.price /\ o1.id < o2.id)

\* skiplist_next on a fresh iterator: the first order of a side.
BookFirst(ords, book) ==
    CHOOSE i \in book : \A j \in book \ {i} : order_match_compare(ords[i], ords[j])

\* The tail of order_finish: drop the order from m->orders and from its
\* user's list.
\* Slip kept for mutation analysis, not used by Spec: the user list is
\* not cleaned.
order_unlink_keepUser(st, id) ==
    [st EXCEPT !.orders = [i \in DOMAIN st.orders \ {id} |-> st.orders[i]]]
order_unlink(st, id) ==
    [st EXCEPT !.orders = [i \in DOMAIN st.orders \ {id} |-> st.orders[i]],
               !.users[st.orders[id].user] = @ \ {id}]

(***************************************************************************)
(* order_finish: take the order off its side of the book, release what   *)
(* it still has frozen, and unlink it.  If the unfreeze is refused the    *)
(* code returns early, leaving the order in m->orders and m->users though *)
(* it is no longer in the book.  (The order history append of a finished *)
(* order with deal_stock > 0 goes to the history writer, not modelled.)  *)
(***************************************************************************)
order_finish(st, id) ==
    LET o   == st.orders[id]
        a   == FrozenAsset(o.side)
        st1 == IF o.side = ASK THEN [st EXCEPT !.asks = @ \ {id}]
                               ELSE [st EXCEPT !.bids = @ \ {id}]
    IN  IF o.freeze > 0 /\ unfreeze_refused(st.bal, o.user, a, o.freeze)
        THEN st1
        ELSE order_unlink(
               [st1 EXCEPT !.bal = IF o.freeze > 0
                                   THEN balance_unfreeze(@, o.user, a, o.freeze)
                                   ELSE @], id)

(***************************************************************************)
(* order_put: insert a limit order into m->orders, its user's list and   *)
(* its side, set its freeze to what it may still spend, and freeze that  *)
(* in the ledger.  A refused freeze is only logged by the caller: the     *)
(* order stays in the book with its freeze field set.                    *)
(***************************************************************************)
order_put(st, o) ==
    LET frz == IF o.side = ASK THEN o.left * FeeScale
                               ELSE o.price * o.left * FeeScale
        o2  == [o EXCEPT !.freeze = frz]
    IN  [st EXCEPT
            !.orders = [i \in DOMAIN st.orders \cup {o.id} |->
                            IF i = o.id THEN o2 ELSE st.orders[i]],
            !.users[o.user] = @ \cup {o.id},
            !.asks = IF o.side = ASK THEN @ \cup {o.id} ELSE @,
            !.bids = IF o.side = BID THEN @ \cup {o.id} ELSE @,
            !.bal = balance_freeze(@, o.user, FrozenAsset(o.side), frz)]

\* The end of every fill: a maker with nothing left is announced FINISH
\* and finished, any other maker is announced UPDATE.
\* Slip kept for mutation analysis, not used by Spec: no FINISH pushed
\* for a filled maker.
MakerSettled_noMsg(st, mk) ==
    IF st.orders[mk].left = 0
    THEN order_finish(st, mk)
    ELSE [st EXCEPT !.msgs = Append(@, Msg(UPDATE, mk))]
MakerSettled(st, mk) ==
    IF st.orders[mk].left = 0
    THEN order_finish([st EXCEPT !.msgs = Append(@, Msg(FINISH, mk))], mk)
    ELSE [st EXCEPT !.msgs = Append(@, Msg(UPDATE, mk))]

-----------------------------------------------------------------------------
(***************************************************************************)
(* One fill against a resting BID maker (the body of the loops of        *)
(* execute_limit_ask_order and execute_market_ask_order).  The ASK taker *)
(* gives stock and gets money less ask_fee = deal * taker_fee; the maker *)
(* pays from its frozen money and gets stock less bid_fee = amount *      *)
(* maker_fee.  Every balance_sub / balance_add result is ignored, so a   *)
(* refused one is simply skipped.                                         *)
(***************************************************************************)
\* Slip kept for mutation analysis, not used by Spec: the BID maker's
\* freeze drops by the amount (the ASK-maker formula).
BidMakerFilled_byAmount(m, amount) ==
    [m EXCEPT !.left = @ - amount, !.freeze = @ - amount * FeeScale,
              !.deal_stock = @ + amount, !.deal_money = @ + m.price * amount,
              !.deal_fee = @ + amount * m.maker_fee]
\* The BID maker's counters: it pays bid_fee = amount * maker_fee.
BidMakerFilled(m, amount) ==
    [m EXCEPT !.left = @ - amount, !.freeze = @ - m.price * amount * FeeScale,
              !.deal_stock = @ + amount, !.deal_money = @ + m.price * amount,
              !.deal_fee = @ + amount * m.maker_fee]

\* The taker's counters after a fill: left drops by spent, deal_stock,
\* deal_money and deal_fee grow by the amount, the deal and its own fee.
\* Slip kept for mutation analysis, not used by Spec: deal_fee not
\* updated.
TakerFilled_noFee(t, spent, amount, deal, fee) ==
    [t EXCEPT !.left = @ - spent, !.deal_stock = @ + amount,
              !.deal_money = @ + deal]
TakerFilled(t, spent, amount, deal, fee) ==
    [t EXCEPT !.left = @ - spent, !.deal_stock = @ + amount,
              !.deal_money = @ + deal, !.deal_fee = @ + fee]

FillAsk(st, mk, amount) ==
    LET t       == st.taker
        m       == st.orders[mk]
        deal    == m.price * amount
        ask_fee == deal * t.taker_fee
        bid_fee == amount * m.maker_fee
        b1 == balance_add(balance_sub(st.bal, t.user, AVAILABLE, Stock, amount * FeeScale),
                          t.user, AVAILABLE, Money, deal * FeeScale)
        b2 == IF ask_fee > 0 THEN balance_sub(b1, t.user, AVAILABLE, Money, ask_fee) ELSE b1
        b3 == balance_add(balance_sub(b2, m.user, FREEZE, Money, deal * FeeScale),
                          m.user, AVAILABLE, Stock, amount * FeeScale)
        b4 == IF bid_fee > 0 THEN balance_sub(b3, m.user, AVAILABLE, Stock, bid_fee) ELSE b3
    IN  MakerSettled(
          [st EXCEPT
             !.bal = b4,
             !.taker = TakerFilled(t, amount, amount, deal, ask_fee),
             !.orders[mk] = BidMakerFilled(m, amount),
             !.deals = Append(@, [taker |-> t.id, maker |-> mk, side |-> ASK,
                                  price |-> m.price, amount |-> amount,
                                  ask_fee |-> ask_fee, bid_fee |-> bid_fee])],
          mk)

(***************************************************************************)
(* One fill against a resting ASK maker (the body of the loops of        *)
(* execute_limit_bid_order and execute_market_bid_order).  The BID taker *)
(* pays money and gets stock less bid_fee = amount * taker_fee; the maker *)
(* pays from its frozen stock and gets money less ask_fee = deal *        *)
(* maker_fee.  spent is what the taker's left drops by: the amount for a *)
(* limit order, the deal for a market BID, whose left counts money.       *)
(***************************************************************************)
\* The ASK maker's counters: it pays ask_fee = deal * maker_fee.
AskMakerFilled(m, amount) ==
    [m EXCEPT !.left = @ - amount, !.freeze = @ - amount * FeeScale,
              !.deal_stock = @ + amount, !.deal_money = @ + m.price * amount,
              !.deal_fee = @ + m.price * amount * m.maker_fee]

FillBid(st, mk, amount, spent) ==
    LET t       == st.taker
        m       == st.orders[mk]
        deal    == m.price * amount
        ask_fee == deal * m.maker_fee
        bid_fee == amount * t.taker_fee
        b1 == balance_add(balance_sub(st.bal, t.user, AVAILABLE, Money, deal * FeeScale),
                          t.user, AVAILABLE, Stock, amount * FeeScale)
        b2 == IF bid_fee > 0 THEN balance_sub(b1, t.user, AVAILABLE, Stock, bid_fee) ELSE b1
        b3 == balance_add(balance_sub(b2, m.user, FREEZE, Stock, amount * FeeScale),
                          m.user, AVAILABLE, Money, deal * FeeScale)
        b4 == IF ask_fee > 0 THEN balance_sub(b3, m.user, AVAILABLE, Money, ask_fee) ELSE b3
    IN  MakerSettled(
          [st EXCEPT
             !.bal = b4,
             !.taker = TakerFilled(t, spent, amount, deal, bid_fee),
             !.orders[mk] = AskMakerFilled(m, amount),
             !.deals = Append(@, [taker |-> t.id, maker |-> mk, side |-> BID,
                                  price |-> m.price, amount |-> amount,
                                  ask_fee |-> ask_fee, bid_fee |-> bid_fee])],
          mk)

-----------------------------------------------------------------------------
(* The four matching loops: walk the opposite side from its best order  *)
(* until the taker has nothing left, the side is empty, or (limit only)  *)
(* the best maker no longer crosses the taker's price.                   *)

\* Slip kept for mutation analysis, not used by Spec: the loop stops
\* when the prices are equal.
RECURSIVE execute_limit_ask_order_stopOnEqual(_)
execute_limit_ask_order_stopOnEqual(st) ==
    IF st.taker.left = 0 \/ st.bids = {} THEN st
    ELSE LET mk == BookFirst(st.orders, st.bids)
             m  == st.orders[mk]
         IN  IF st.taker.price >= m.price THEN st
             ELSE execute_limit_ask_order_stopOnEqual(FillAsk(st, mk, MinOf(st.taker.left, m.left)))

RECURSIVE execute_limit_ask_order(_)
execute_limit_ask_order(st) ==
    IF st.taker.left = 0 \/ st.bids = {} THEN st
    ELSE LET mk == BookFirst(st.orders, st.bids)
             m  == st.orders[mk]
         IN  IF st.taker.price > m.price THEN st
             ELSE execute_limit_ask_order(FillAsk(st, mk, MinOf(st.taker.left, m.left)))

RECURSIVE execute_limit_bid_order(_)
execute_limit_bid_order(st) ==
    IF st.taker.left = 0 \/ st.asks = {} THEN st
    ELSE LET mk == BookFirst(st.orders, st.asks)
             m  == st.orders[mk]
             amount == MinOf(st.taker.left, m.left)
         IN  IF st.taker.price < m.price THEN st
             ELSE execute_limit_bid_order(FillBid(st, mk, amount, amount))

RECURSIVE execute_market_ask_order(_)
execute_market_ask_order(st) ==
    IF st.taker.left = 0 \/ st.bids = {} THEN st
    ELSE LET mk == BookFirst(st.orders, st.bids)
         IN  execute_market_ask_order(
               FillAsk(st, mk, MinOf(st.taker.left, st.orders[mk].left)))

\* The market BID buys floor(left / price) lots of the best ask: mpd_div,
\* the rescale to stock_prec and the correction loop that lowers the
\* amount while amount * price > left, capped at the maker's left.  An
\* amount of zero ends the loop with money left over.
RECURSIVE execute_market_bid_order(_)
execute_market_bid_order(st) ==
    IF st.taker.left = 0 \/ st.asks = {} THEN st
    ELSE LET mk     == BookFirst(st.orders, st.asks)
             m      == st.orders[mk]
             amount == MinOf(st.taker.left \div m.price, m.left)
         IN  IF amount = 0 THEN st
             ELSE execute_market_bid_order(FillBid(st, mk, amount, m.price * amount))

-----------------------------------------------------------------------------
Init ==
    /\ balance = [u \in Users |-> [t \in BalanceTypes |-> [a \in Assets |->
                    IF t = FREEZE THEN 0
                    ELSE IF a = Stock THEN InitStock[u] * FeeScale
                    ELSE InitMoney[u] * FeeScale]]]
    /\ orders = [i \in {} |-> 0]
    /\ asks = {}
    /\ bids = {}
    /\ users = [u \in Users |-> {}]
    /\ order_id_start = 0
    /\ deals = <<>>
    /\ messages = <<>>
    /\ updates = [i \in {} |-> 0]

NewOrder(type, side, u, price, amount, taker_fee, maker_fee) ==
    [id |-> order_id_start + 1, type |-> type, side |-> side, user |-> u,
     price |-> price, amount |-> amount, left |-> amount, freeze |-> 0,
     deal_stock |-> 0, deal_money |-> 0, deal_fee |-> 0, taker_fee |-> taker_fee, maker_fee |-> maker_fee]

(***************************************************************************)
(* market_put_limit_order, as called by on_cmd_order_put_limit.  The      *)
(* balance check (-1) and the min_amount check (-2) return with nothing   *)
(* changed, so they are the guard.  Then the order gets the next id, is  *)
(* matched, and is either announced FINISH (nothing left) or announced    *)
(* PUT and put into the book.                                             *)
(***************************************************************************)
PutLimit(u, side, amount, price, taker_fee, maker_fee) ==
    /\ IF side = ASK THEN balance_get(balance, u, AVAILABLE, Stock) >= amount * FeeScale
                     ELSE balance_get(balance, u, AVAILABLE, Money) >= amount * price * FeeScale
    /\ amount >= MinAmount
    /\ LET taker == NewOrder(LIMIT, side, u, price, amount, taker_fee, maker_fee)
           st    == IF side = ASK THEN execute_limit_ask_order(Snapshot(taker))
                                  ELSE execute_limit_bid_order(Snapshot(taker))
       IN  /\ order_id_start' = order_id_start + 1
           /\ UNCHANGED updates
           /\ Commit(IF st.taker.left = 0
                     THEN [st EXCEPT !.msgs = Append(@, Msg(FINISH, taker.id))]
                     ELSE order_put([st EXCEPT !.msgs = Append(@, Msg(PUT, taker.id))],
                                    st.taker))

(***************************************************************************)
(* market_put_market_order, as called by on_cmd_order_put_market.  An ASK *)
(* needs the stock (-1), a non-empty bid side (-3) and amount >=         *)
(* min_amount (-2); a BID needs the money (-1), a non-empty ask side (-3) *)
(* and amount >= best ask price * min_amount (-2).  The order (price 0,  *)
(* maker fee 0) is matched and always finished: it never rests.           *)
(***************************************************************************)
PutMarket(u, side, amount, taker_fee) ==
    /\ IF side = ASK
       THEN /\ balance_get(balance, u, AVAILABLE, Stock) >= amount * FeeScale
            /\ bids # {}
            /\ amount >= MinAmount
       ELSE /\ balance_get(balance, u, AVAILABLE, Money) >= amount * FeeScale
            /\ asks # {}
            /\ amount >= orders[BookFirst(orders, asks)].price * MinAmount
    /\ LET taker == NewOrder(MARKET, side, u, 0, amount, taker_fee, 0)
           st    == IF side = ASK THEN execute_market_ask_order(Snapshot(taker))
                                  ELSE execute_market_bid_order(Snapshot(taker))
       IN  /\ order_id_start' = order_id_start + 1
           /\ UNCHANGED updates
           /\ Commit([st EXCEPT !.msgs = Append(@, Msg(FINISH, taker.id))])

(***************************************************************************)
(* on_cmd_order_cancel: "order not found" and "user not match" reply     *)
(* with nothing changed; otherwise market_cancel_order announces the      *)
(* order FINISH and finishes it.                                          *)
(***************************************************************************)
market_cancel_order(st, id) ==
    order_finish([st EXCEPT !.msgs = Append(@, Msg(FINISH, id))], id)

Cancel(u, id) ==
    /\ id \in DOMAIN orders
    /\ orders[id].user = u
    /\ Commit(market_cancel_order(Snapshot(orders[id]), id))
    /\ UNCHANGED <<order_id_start, updates>>

(***************************************************************************)
(* on_cmd_balance_update and update_user_balance.  The handler's argument *)
(* checks are the input sets; the update itself (me_update.c) is not      *)
(* under src/ and follows spec.md 6 and 8: a business_id already applied  *)
(* is refused with "repeat update", a debit beyond the available balance *)
(* with "balance not enough", both with nothing changed; otherwise the    *)
(* change goes to the AVAILABLE balance and is recorded.  (The operation  *)
(* log and the balance stream are not modelled here.)                     *)
(***************************************************************************)
\* Slip kept for mutation analysis, not used by Spec: no repeat check.
update_user_balance_noRepeat(u, a, bid, change) ==
    /\ change >= 0 \/ balance_get(balance, u, AVAILABLE, a) >= -change * FeeScale
    /\ balance' = IF change >= 0 THEN balance_add(balance, u, AVAILABLE, a, change * FeeScale)
                                 ELSE balance_sub(balance, u, AVAILABLE, a, -change * FeeScale)
    /\ updates' = [i \in DOMAIN updates \cup {bid} |->
                      IF i = bid THEN [user |-> u, asset |-> a, change |-> change]
                      ELSE updates[i]]
update_user_balance(u, a, bid, change) ==
    /\ bid \notin DOMAIN updates
    /\ change >= 0 \/ balance_get(balance, u, AVAILABLE, a) >= -change * FeeScale
    /\ balance' = IF change >= 0 THEN balance_add(balance, u, AVAILABLE, a, change * FeeScale)
                                 ELSE balance_sub(balance, u, AVAILABLE, a, -change * FeeScale)
    /\ updates' = [i \in DOMAIN updates \cup {bid} |->
                      IF i = bid THEN [user |-> u, asset |-> a, change |-> change]
                      ELSE updates[i]]

BalanceUpdate(u, a, bid, change) ==
    /\ update_user_balance(u, a, bid, change)
    /\ UNCHANGED <<orders, asks, bids, users, order_id_start, deals, messages>>

Next ==
    \/ \E u \in Users, side \in {ASK, BID}, amount \in Amounts, price \in Prices,
          tf \in TakerFees, mf \in MakerFees :
          PutLimit(u, side, amount, price, tf, mf)
    \/ \E u \in Users, tf \in TakerFees :
          \/ \E amount \in Amounts : PutMarket(u, ASK, amount, tf)
          \/ \E amount \in MarketBidAmounts : PutMarket(u, BID, amount, tf)
    \/ \E u \in Users, id \in DOMAIN orders : Cancel(u, id)
    \/ \E u \in Users, bid \in BusinessIds, c \in BalanceChanges :
          BalanceUpdate(u, c[1], bid, c[2])

Spec == Init /\ [][Next]_vars

-----------------------------------------------------------------------------
(***************************************************************************)
(* order.depth (on_cmd_order_book_depth): a read of the book, one side at *)
(* a time, walking the skiplist from its best order.  interval 0 calls    *)
(* get_depth, one level per distinct price; a positive interval calls     *)
(* get_depth_merge, which puts an ask into the level of its price rounded *)
(* up to a multiple of the interval and a bid into the level rounded      *)
(* down.  A level is [price, amount], amount the sum of the orders' left. *)
(***************************************************************************)

\* A side of the book as the skiplist iterator yields it: the first order,
\* then the first of the rest.
RECURSIVE SideSeq(_)
SideSeq(book) ==
    IF book = {} THEN <<>>
    ELSE LET first == BookFirst(orders, book)
         IN  <<orders[first]>> \o SideSeq(book \ {first})

\* The price of the level opened by an order at price p: p itself, or
\* (mpd_divmod, mpd_mul) q * interval, plus the interval for an ask whose
\* remainder is not zero.
\* Slip kept for mutation analysis, not used by Spec: the bid loop
\* rounding up like the ask loop.
DepthLevel_bidRoundUp(side, iv, p) ==
    IF iv = 0 THEN p ELSE (p \div iv) * iv + (IF p % iv # 0 THEN iv ELSE 0)
DepthLevel(side, iv, p) ==
    IF iv = 0 THEN p
    ELSE (p \div iv) * iv + (IF side = ASK /\ p % iv # 0 THEN iv ELSE 0)

\* The inner loop's test that the next order at price q joins the level at
\* price lp: equal prices, or lp >= q for asks and lp <= q for bids.
InLevel(side, iv, lp, q) ==
    CASE iv = 0      -> lp = q
      [] side = ASK  -> lp >= q
      [] OTHER       -> lp <= q

\* The inner loop: add up the following orders while they join the level;
\* returns the level's amount and the orders not consumed.
RECURSIVE LevelScan(_, _, _, _, _)
LevelScan(s, side, iv, lp, amount) ==
    IF s # <<>> /\ InLevel(side, iv, lp, Head(s).price)
    THEN LevelScan(Tail(s), side, iv, lp, amount + Head(s).left)
    ELSE [amount |-> amount, rest |-> s]

\* The outer loop: while an order is left and fewer than limit levels were
\* emitted, open a level at the next order and close it with the inner loop.
RECURSIVE DepthScan(_, _, _, _)
DepthScan(s, side, iv, limit) ==
    IF s = <<>> \/ limit = 0 THEN <<>>
    ELSE LET lp == DepthLevel(side, iv, Head(s).price)
             r  == LevelScan(Tail(s), side, iv, lp, Head(s).left)
         IN  <<<<lp, r.amount>>>> \o DepthScan(r.rest, side, iv, limit - 1)

\* The reply of order.depth: both sides, for a limit and an interval.
order_book_depth(limit, iv) ==
    [asks |-> DepthScan(SideSeq(asks), ASK, iv, limit),
     bids |-> DepthScan(SideSeq(bids), BID, iv, limit)]

(***************************************************************************)
(* order.pending (on_cmd_order_query) and order.book (on_cmd_order_book):  *)
(* a page of a user's order list or of one side.  Both skip offset nodes   *)
(* (stopping early at the end), then take nodes while fewer than limit    *)
(* were taken, and only when offset < the list's length.                   *)
(***************************************************************************)
RECURSIVE SkipNodes(_, _)
SkipNodes(s, n) == IF n = 0 \/ s = <<>> THEN s ELSE SkipNodes(Tail(s), n - 1)

RECURSIVE TakeNodes(_, _)
TakeNodes(s, n) == IF s = <<>> \/ n = 0 THEN <<>> ELSE <<Head(s)>> \o TakeNodes(Tail(s), n - 1)

\* Slip kept for mutation analysis, not used by Spec: the skip loop
\* written with i <= offset.
PageOf_skipOneMore(s, offset, limit) ==
    IF offset < Len(s) THEN TakeNodes(SkipNodes(s, offset + 1), limit) ELSE <<>>
PageOf(s, offset, limit) ==
    IF offset < Len(s) THEN TakeNodes(SkipNodes(s, offset), limit) ELSE <<>>

\* market_get_order_list: a user's list, a skiplist ordered by
\* order_id_compare, the newest order first.  A user that never rested an
\* order has no list, and the reply's total is 0.
RECURSIVE UserList(_)
UserList(ids) ==
    IF ids = {} THEN <<>> ELSE <<orders[Max(ids)]>> \o UserList(ids \ {Max(ids)})

UserSeq(u) == UserList(users[u])

order_query(u, offset, limit) ==
    [total |-> Cardinality(users[u]), records |-> PageOf(UserSeq(u), offset, limit)]

order_book(side, offset, limit) ==
    LET book == IF side = ASK THEN asks ELSE bids
    IN  [total |-> Cardinality(book), orders |-> PageOf(SideSeq(book), offset, limit)]

\* market_get_status: the length of each side and the sum of its orders'
\* left, added up walking the skiplist.
RECURSIVE SumLeft(_)
SumLeft(s) == IF s = <<>> THEN 0 ELSE Head(s).left + SumLeft(Tail(s))

market_get_status ==
    [ask_count |-> Cardinality(asks), ask_amount |-> SumLeft(SideSeq(asks)),
     bid_count |-> Cardinality(bids), bid_amount |-> SumLeft(SideSeq(bids))]

(***************************************************************************)
(* order.pending_detail (on_cmd_order_detail): market_get_order looks the *)
(* id up in m->orders; the reply is get_order_info of the order, or null. *)
(* The record of the reported fields stands for the JSON object.          *)
(***************************************************************************)
JsonNull == [null |-> TRUE]

market_get_order(id) == IF id \in DOMAIN orders THEN orders[id] ELSE JsonNull

get_order_info(o) ==
    [f \in {"id", "type", "side", "user", "price", "amount", "taker_fee",
            "maker_fee", "left", "deal_stock", "deal_money", "deal_fee"} |-> o[f]]

order_detail(id) ==
    LET o == market_get_order(id) IN IF o = JsonNull THEN JsonNull ELSE get_order_info(o)

\* asset.summary (on_cmd_asset_summary without arguments): get_asset_summary
\* of every asset, each the result of balance_status.
get_asset_summary(a) == balance_status(balance, a)

asset_summary == [a \in Assets |-> get_asset_summary(a)]

-----------------------------------------------------------------------------
(***************************************************************************)
(* Properties.                                                             *)
(***************************************************************************)
OrderIds == 1 .. order_id_start

\* Every variable holds values of the shape the code's structures allow;
\* in particular no resting order's left or freeze has gone negative.
TypeOK ==
    /\ balance \in [Users -> [BalanceTypes -> [Assets -> Nat]]]
    /\ DOMAIN orders \subseteq OrderIds
    /\ \A id \in DOMAIN orders :
          /\ orders[id].id = id
          /\ orders[id].side \in {ASK, BID}
          /\ orders[id].user \in Users
          /\ orders[id].left \in Nat
          /\ orders[id].freeze \in Nat
    /\ asks \subseteq OrderIds /\ bids \subseteq OrderIds
    /\ users \in [Users -> SUBSET OrderIds]
    /\ order_id_start \in Nat
    /\ \A k \in DOMAIN deals : deals[k].amount \in Nat \ {0}
    /\ messages \in Seq([event : {PUT, UPDATE, FINISH}, id : OrderIds])
    /\ DOMAIN updates \subseteq BusinessIds

\* What a resting order still needs: its left in stock for an ASK, its
\* left at its own price in money for a BID (ledger units).
Collateral(o) ==
    IF o.side = ASK THEN o.left * FeeScale ELSE o.price * o.left * FeeScale

\* Freeze accounting across order_put, the fills and order_finish: every
\* resting order's freeze is exactly the collateral of what it has left,
\* and every user's FREEZE balance of an asset is exactly the sum of the
\* freezes of that user's resting orders on that asset.  A fill that
\* decrements the maker's freeze by the wrong quantity, a refused freeze
\* in order_put, or a refused unfreeze in order_finish breaks it.
FreezeConsistency ==
    /\ \A id \in DOMAIN orders : orders[id].freeze = Collateral(orders[id])
    /\ \A u \in Users, a \in Assets :
          balance[u][FREEZE][a] =
            MapThenSumSet(LAMBDA id : orders[id].freeze,
                          {id \in DOMAIN orders : /\ orders[id].user = u
                                                  /\ FrozenAsset(orders[id].side) = a})

InitialTotal(a) ==
    MapThenSumSet(LAMBDA u : IF a = Stock THEN InitStock[u] * FeeScale
                                          ELSE InitMoney[u] * FeeScale, Users)

\* What the applied balance.update calls added to an asset (ledger units).
Updated(a) ==
    MapThenSumSet(LAMBDA i : IF updates[i].asset = a THEN updates[i].change * FeeScale ELSE 0,
                  DOMAIN updates)

\* Fees leave the ledger: bid_fee is charged in stock, ask_fee in money.
FeesCharged(a) ==
    MapThenSumSet(LAMBDA k : IF a = Stock THEN deals[k].bid_fee ELSE deals[k].ask_fee,
                  DOMAIN deals)

\* Conservation: the total asset.summary reports for an asset is what the
\* users started with plus the balance.update changes of the business ids
\* it applied, each once, minus the fees the deal stream reports: matching
\* only moves assets between users.  Every balance_sub /
\* balance_add in the fill loops ignores its result, so a refused
\* subtraction (a self-trade, a fee charged before the proceeds arrive)
\* would silently mint value and break this; so would a repeated
\* business_id applied again, or a debit update the ledger refuses.
Conservation ==
    \A a \in Assets :
        asset_summary[a].total + FeesCharged(a) = InitialTotal(a) + Updated(a)

\* The fills an order took part in: as taker or as maker.
DealsOf(id) == {k \in DOMAIN deals : deals[k].taker = id \/ deals[k].maker = id}

\* The fee the order of this side paid in deal k: the ASK side pays
\* ask_fee, the BID side bid_fee, whichever of them was the taker.
FeePaid(k, side) == IF side = ASK THEN deals[k].ask_fee ELSE deals[k].bid_fee

\* order.pending_detail agrees with the book and with the deal stream: an
\* order is found exactly while it rests, and the deal_stock, deal_money
\* and deal_fee it reports are the sums of the amount, the deal and the
\* fee it paid over every fill it took part in, first as the taker and
\* then as a maker over many later commands, with deal_stock what its
\* left has dropped by.  Each of the four execute_* loops updates these
\* counters twice per fill, the taker's with one fee and the maker's with
\* the other; a swapped or missing update breaks this.
OrderDetailMatchesDeals ==
    \A id \in OrderIds :
        LET d == order_detail(id) IN
        /\ d = JsonNull <=> id \notin asks \cup bids
        /\ d # JsonNull =>
              /\ d.amount - d.left = d.deal_stock
              /\ d.deal_stock = MapThenSumSet(LAMBDA k : deals[k].amount, DealsOf(id))
              /\ d.deal_money = MapThenSumSet(LAMBDA k : deals[k].price * deals[k].amount, DealsOf(id))
              /\ d.deal_fee = MapThenSumSet(LAMBDA k : FeePaid(k, d.side), DealsOf(id))

\* The book is never crossed when a command ends: every resting bid is
\* strictly below every resting ask.  This rests on the break conditions
\* of the limit loops and on a limit order resting only what did not match.
NoCrossedBook ==
    \A b \in bids, a \in asks : orders[b].price < orders[a].price

\* The three indexes order_put fills and order_finish empties agree:
\* m->asks and m->bids partition m->orders by side, m->users lists exactly
\* each user's resting orders, and only limit orders with something left
\* rest.
BookIndexConsistent ==
    /\ asks \cap bids = {}
    /\ asks \cup bids = DOMAIN orders
    /\ \A id \in asks : orders[id].side = ASK
    /\ \A id \in bids : orders[id].side = BID
    /\ \A u \in Users : users[u] = {id \in DOMAIN orders : orders[id].user = u}
    /\ \A id \in DOMAIN orders : orders[id].type = LIMIT /\ orders[id].left > 0

Announced(id, event) == \E k \in DOMAIN messages : messages[k] = Msg(event, id)

\* The order stream tells a consumer the book: an order is resting exactly
\* when it was announced PUT and not yet FINISH; every order id handed out
\* was announced; FINISH is the last event of an order and PUT its first.
\* Each of the many push_order_message calls (fills, placement, market
\* orders, cancel) must be made, once, in the right place for this.
OrderStreamMatchesBook ==
    /\ \A id \in OrderIds :
          /\ id \in DOMAIN orders <=> (Announced(id, PUT) /\ ~Announced(id, FINISH))
          /\ Announced(id, PUT) \/ Announced(id, FINISH)
    /\ \A k1, k2 \in DOMAIN messages :
          (k1 < k2 /\ messages[k1].id = messages[k2].id)
             => messages[k1].event # FINISH /\ messages[k2].event # PUT

\* What a depth reply says, from the book alone: the levels the side's
\* orders fall in (the price, or the multiple of the interval nearest at
\* or above an ask's price and at or below a bid's), best first, the
\* first limit of them, each with the total left of the orders in it.
DepthOf(book, side, iv, limit) ==
    LET lv(i) == IF iv = 0 THEN orders[i].price
                 ELSE CHOOSE x \in {m * iv : m \in 0 .. orders[i].price} :
                        IF side = ASK THEN x >= orders[i].price /\ x - iv < orders[i].price
                                      ELSE x <= orders[i].price /\ x + iv > orders[i].price
        levels == {lv(i) : i \in book}
        \* the k-th best level: k - 1 levels are better
        best(k) == CHOOSE x \in levels :
                     Cardinality({y \in levels : IF side = ASK THEN y < x ELSE y > x}) = k - 1
    IN  [k \in 1 .. (IF limit < Cardinality(levels) THEN limit ELSE Cardinality(levels)) |->
           <<best(k), MapThenSumSet(LAMBDA i : orders[i].left, {i \in book : lv(i) = best(k)})>>]

\* order.depth reports the book: for every limit and interval, each side
\* of the reply is DepthOf that side.  The nested skiplist loops of
\* get_depth and get_depth_merge (the level rounding, the join tests of
\* the inner loop, the level count of the outer one) must agree with it
\* on every book the market can reach, equal-price ties and levels that
\* merge several prices included.
DepthMatchesBook ==
    \A limit \in DepthLimits, iv \in DepthIntervals :
        order_book_depth(limit, iv) =
          [asks |-> DepthOf(asks, ASK, iv, limit), bids |-> DepthOf(bids, BID, iv, limit)]

\* The orders from position offset + 1 on of a list, at most limit of them.
Slice(s, offset, limit) ==
    [k \in 1 .. (IF offset >= Len(s) THEN 0
                 ELSE IF Len(s) - offset < limit THEN Len(s) - offset ELSE limit)
       |-> s[offset + k]]

\* A list holds exactly the orders ids, each once, each before the next
\* by Before.
ListsInOrder(list, ids, Before(_, _)) ==
    /\ Len(list) = Cardinality(ids)
    /\ {list[k].id : k \in DOMAIN list} = ids
    /\ \A k \in 1 .. Len(list) - 1 : Before(list[k], list[k + 1])

\* The paging queries and the market summary report the book as it is
\* when the command ends: order.pending pages a user's resting orders
\* newest first and order.book a side in priority order (best price,
\* then earliest id), from position offset + 1 and at most limit of
\* them, each with the full count as its total; market.summary counts
\* each side and sums what it has left.  The skip and take loops of the
\* two handlers and the user lists that order_put and order_finish keep
\* must all be right for this.
QueriesMatchBook ==
    /\ \A u \in Users :
          LET mine == {id \in DOMAIN orders : orders[id].user = u}
              list == UserSeq(u)
          IN  /\ ListsInOrder(list, mine, LAMBDA a, b : a.id > b.id)
              /\ \A off \in PageOffsets, lim \in PageLimits :
                    order_query(u, off, lim) =
                      [total |-> Cardinality(mine), records |-> Slice(list, off, lim)]
    /\ \A side \in {ASK, BID} :
          LET book == {id \in DOMAIN orders : orders[id].side = side}
              list == SideSeq(IF side = ASK THEN asks ELSE bids)
          IN  /\ ListsInOrder(list, book,
                   LAMBDA a, b : \/ side = ASK /\ a.price < b.price
                                 \/ side = BID /\ a.price > b.price
                                 \/ a.price = b.price /\ a.id < b.id)
              /\ \A off \in PageOffsets, lim \in PageLimits :
                    order_book(side, off, lim) = [total |-> Cardinality(book), orders |-> Slice(list, off, lim)]
    /\ market_get_status =
          [ask_count |-> Cardinality(asks),
           ask_amount |-> MapThenSumSet(LAMBDA i : orders[i].left, asks),
           bid_count |-> Cardinality(bids),
           bid_amount |-> MapThenSumSet(LAMBDA i : orders[i].left, bids)]

-----------------------------------------------------------------------------
(***************************************************************************)
(* Refinement: the market implements the order book of spec.md 4.2.  The *)
(* abstract book is the two sides of the market with each order's side,  *)
(* owner, price and left; its trades are the deal stream without fees;   *)
(* its id counter is order_id_start.  Balances and fees have no          *)
(* abstract counterpart: the balance and min_amount checks only make the *)
(* market refuse commands the abstract book would accept.                *)
(***************************************************************************)
OB == INSTANCE OrderBook WITH
        Budgets <- MarketBidAmounts,
        book    <- [id \in asks \cup bids |->
                      [side |-> orders[id].side, user |-> orders[id].user,
                       price |-> orders[id].price, left |-> orders[id].left]],
        next_id <- order_id_start,
        trades  <- [k \in DOMAIN deals |->
                      [taker |-> deals[k].taker, maker |-> deals[k].maker,
                       price |-> deals[k].price, amount |-> deals[k].amount]]

\* Every behaviour of the market, with its four matching loops, skiplist
\* order and early exits, is a behaviour of the order book: each command
\* fills the acceptable makers in price-time priority, at their prices,
\* as far as the taker's amount or budget allows, and rests exactly what
\* a limit order has left.
ImplementsOrderBook == OB!Spec
=============================================================================
