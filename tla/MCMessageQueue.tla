--------------------------- MODULE MCMessageQueue ---------------------------
(* Model-checking instance of MessageQueue: the orders and deals topics, *)
(* and the bursts the order commands push: a fill pushes its deal and then *)
(* the maker's UPDATE or FINISH, and the taker's PUT or FINISH comes last, *)
(* so a command with no fill, one fill or two fills.                      *)
EXTENDS MessageQueue

MCTopics == {"orders", "deals"}
MCBursts == {<<"orders">>, <<"deals", "orders", "orders">>,
             <<"deals", "orders", "deals", "orders", "orders">>}
=============================================================================
