------------------------------ MODULE Precision ------------------------------
(***************************************************************************)
(* The decimal precision design of a market (me_market.c market_create,  *)
(* the fill arithmetic, and the rescale in me_balance.c).  Market.tla     *)
(* works in exact integers; this module asks whether the real decimals    *)
(* are exact too.  A balance is held as an integer scaled by 10^Digits,  *)
(* with Digits large enough for every product below; an order field is   *)
(* held as its count of steps on its own grid, so that a product of two  *)
(* fields is exact with the digits added, as mpd_mul makes it; and the   *)
(* rescale of a balance to its asset's prec_save is a rounding to a        *)
(* multiple of 10^(Digits - prec_save).  The rounding mode is set in     *)
(* init_mpd (not in src/), so both directions are allowed.                *)
(***************************************************************************)
EXTENDS Integers

CONSTANTS
    MaxPrec    \* largest number of decimal digits a precision may take

Digits == 3 * MaxPrec

\* The step of a grid of prec decimal digits.
Ulp(prec) == 10^(Digits - prec)

VARIABLES
    stock_prec, money_prec, fee_prec,  \* the market's configuration
    stock_save, money_save,            \* prec_save of the two assets
    price, amount, taker_fee,          \* a taker ASK filled at the maker's
                                       \* price, as steps of 10^-money_prec,
                                       \* 10^-stock_prec and 10^-fee_prec
    money,                             \* the taker's available money entry
    filled                             \* whether the fill has run

vars == <<stock_prec, money_prec, fee_prec, stock_save, money_save,
          price, amount, taker_fee, money, filled>>

Precs == 0 .. MaxPrec

\* The three checks of market_create.
market_create_ok ==
    /\ stock_prec + money_prec <= money_save
    /\ stock_prec + fee_prec <= stock_save
    /\ money_prec + fee_prec <= money_save

\* mpd_rescale to prec digits, rounding either way.
Rescaled(x, prec) == {(x \div Ulp(prec)) * Ulp(prec),
                      ((x + Ulp(prec) - 1) \div Ulp(prec)) * Ulp(prec)}

\* A market that market_create accepts, and a taker ASK that
\* on_cmd_order_put_limit accepts: amount and price on the market's grids,
\* a fee in [0, 1) on the fee grid, and a money entry on the asset's grid.
Init ==
    /\ stock_prec \in Precs /\ money_prec \in Precs /\ fee_prec \in Precs
    /\ stock_save \in Precs /\ money_save \in Precs
    /\ market_create_ok
    /\ price \in 1 .. 2
    /\ amount \in 1 .. 2
    /\ taker_fee \in 1 .. 2
    /\ taker_fee < 10^fee_prec
    /\ money = 0
    /\ filled = FALSE

(***************************************************************************)
(* The money side of one fill of execute_limit_ask_order: deal = price * *)
(* amount and ask_fee = deal * taker_fee; balance_add credits the deal    *)
(* and rescales, then balance_sub takes the fee and rescales.             *)
(***************************************************************************)
\* deal = price * amount has money_prec + stock_prec digits and ask_fee =
\* deal * taker_fee has money_prec + stock_prec + fee_prec digits.
Deal   == price * amount * Ulp(money_prec + stock_prec)
AskFee == price * amount * taker_fee * Ulp(money_prec + stock_prec + fee_prec)

Fill ==
    LET deal    == Deal
        ask_fee == AskFee
    IN  /\ ~filled
        /\ \E credited \in Rescaled(money + deal, money_save) :
              \E charged \in Rescaled(credited - ask_fee, money_save) :
                 money' = charged
        /\ filled' = TRUE
        /\ UNCHANGED <<stock_prec, money_prec, fee_prec, stock_save,
                       money_save, price, amount, taker_fee>>

Next == Fill \/ (filled /\ UNCHANGED vars)

Spec == Init /\ [][Next]_vars

\* The spec says the checks of market_create prevent silent precision loss
\* in fee and price multiplication: after a fill the taker's money entry
\* is exactly the deal less the fee, with nothing rounded away by the
\* rescale in balance_add or balance_sub.
FeeChargedExactly ==
    filled => money = Deal - AskFee
=============================================================================
