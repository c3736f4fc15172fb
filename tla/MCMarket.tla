------------------------------ MODULE MCMarket ------------------------------
(* Model-checking instance of Market: two users, two prices and amounts,  *)
(* fees of 0 or 1/10, and a bound on the order ids handed out.            *)
EXTENDS Market, TLC

CONSTANTS u1, u2

\* The number of orders a behaviour may place.
MaxOrderId == 4

MCUsers == {u1, u2}
MCInitStock == [u \in MCUsers |-> 2]
MCInitMoney == [u \in MCUsers |-> 4]

\* A withdrawal of 1 lot: applied while the user has the stock available,
\* refused once an ASK has frozen it.
MCBalanceChanges == {<<"stock", -1>>}

\* The users start with the same balances and are interchangeable.
MCSymmetry == Permutations(MCUsers)

\* State constraint: stop exploring once MaxOrderId orders were placed.
OrderIdBound == order_id_start < MaxOrderId
=============================================================================
