------------------------------ MODULE OrderBook ------------------------------
(***************************************************************************)
(* What one market's order book promises (spec.md 4.2), without the      *)
(* ledger, the fees or the matching loop: a placed order trades against  *)
(* the opposite side at the makers' prices, in price-time priority, as   *)
(* far as its limit price and its amount (or, for a market BID, its      *)
(* money budget) allow; what is left of a limit order rests, what is     *)
(* left of a market order is dropped; a cancel removes an order of its   *)
(* owner.  Placement is declarative: any fill of the acceptable makers   *)
(* that respects priority and cannot be extended is allowed.             *)
(***************************************************************************)
EXTENDS Naturals, Sequences, SequencesExt, FiniteSetsExt

CONSTANTS
    Users,     \* users that send commands
    Prices,    \* limit prices
    Amounts,   \* limit and market ASK amounts (lots)
    Budgets    \* market BID amounts (money)

ASK == "ask"
BID == "bid"
LIMIT  == "limit"
MARKET == "market"

VARIABLES
    book,      \* order id -> [side, user, price, left] of the resting orders
    next_id,   \* the last order id handed out
    trades     \* the trades in the order they were made

vars == <<book, next_id, trades>>

Init ==
    /\ book = [i \in {} |-> 0]
    /\ next_id = 0
    /\ trades = <<>>

\* o1 has priority over o2 on their side: a better price, or the same
\* price and an earlier id.
Ahead(i1, i2) ==
    LET o1 == book[i1]
        o2 == book[i2]
    IN  \/ o1.side = ASK /\ o1.price < o2.price
        \/ o1.side = BID /\ o1.price > o2.price
        \/ o1.price = o2.price /\ i1 < i2

\* A taker of this side and limit price accepts a maker at price p.
Acceptable(side, limit, p) ==
    IF side = ASK THEN p >= limit ELSE p <= limit

(***************************************************************************)
(* Place an order.  fill[m] is what maker m gives; the trades are made in *)
(* priority order at each maker's price.  A maker is touched only when    *)
(* every acceptable maker ahead of it is used up, and the taker stops     *)
(* only when it cannot take more: its amount is used up, or (market BID)  *)
(* its budget is below the price of the best maker still there, or no     *)
(* acceptable maker is left.                                               *)
(***************************************************************************)
Place(u, side, type, price, amount) ==
    LET id     == next_id + 1
        makers == {m \in DOMAIN book : /\ book[m].side # side
                                       /\ type = MARKET \/ Acceptable(side, price, book[m].price)}
    IN  /\ next_id' = id
        /\ \E fill \in [makers -> 0 .. Max(Amounts)] :
             LET used  == IF side = BID /\ type = MARKET
                          THEN MapThenSumSet(LAMBDA m : fill[m] * book[m].price, makers)
                          ELSE MapThenSumSet(LAMBDA m : fill[m], makers)
                 rest  == amount - used
                 avail == {m \in makers : fill[m] < book[m].left}
                 done  == {m \in makers : fill[m] = book[m].left}
                 order == SetToSortSeq({m \in makers : fill[m] > 0}, Ahead)
             IN  /\ \A m \in makers : fill[m] <= book[m].left
                 /\ \A m1, m2 \in makers : fill[m2] > 0 /\ Ahead(m1, m2) => m1 \in done
                 /\ used <= amount
                 /\ avail # {} =>
                      IF side = BID /\ type = MARKET
                      THEN rest < book[CHOOSE m \in avail : \A m2 \in avail \ {m} : Ahead(m, m2)].price
                      ELSE rest = 0
                 /\ book' = [m \in (DOMAIN book \ done)
                                   \cup (IF type = LIMIT /\ rest > 0 THEN {id} ELSE {}) |->
                               IF m = id THEN [side |-> side, user |-> u, price |-> price, left |-> rest]
                               ELSE IF m \in makers THEN [book[m] EXCEPT !.left = @ - fill[m]]
                               ELSE book[m]]
                 /\ trades' = trades \o [k \in 1..Len(order) |->
                                  [taker |-> id, maker |-> order[k],
                                   price |-> book[order[k]].price, amount |-> fill[order[k]]]]

\* Cancel a resting order of its owner.
Cancel(u, id) ==
    /\ id \in DOMAIN book
    /\ book[id].user = u
    /\ book' = [m \in DOMAIN book \ {id} |-> book[m]]
    /\ UNCHANGED <<next_id, trades>>

Next ==
    \/ \E u \in Users, side \in {ASK, BID}, price \in Prices, amount \in Amounts :
          Place(u, side, LIMIT, price, amount)
    \/ \E u \in Users, amount \in Amounts : Place(u, ASK, MARKET, 0, amount)
    \/ \E u \in Users, budget \in Budgets : Place(u, BID, MARKET, 0, budget)
    \/ \E u \in Users, id \in DOMAIN book : Cancel(u, id)

Spec == Init /\ [][Next]_vars
=============================================================================
