------------------------------- MODULE Balance -------------------------------
(***************************************************************************)
(* The balance ledger of the match engine (src/matchengine/me_balance.c). *)
(*                                                                         *)
(* The code keeps one decimal per key (user, type, asset) in dict_balance *)
(* and deletes the entry when it reaches zero; a missing entry reads as   *)
(* NULL, which every caller treats as zero.  Here the ledger is a total   *)
(* function b[u][t][a] into Nat in which 0 stands for "no entry".  The    *)
(* operators below return the new ledger; an operation that the code      *)
(* refuses (returns NULL) returns the ledger unchanged, which is what the *)
(* callers in me_market.c see, since they ignore the result.              *)
(*                                                                         *)
(* Amounts are integers in the smallest unit the model needs (see         *)
(* Market.tla); the rescale to prec_save after every operation is exact   *)
(* on such values and is studied separately in Precision.tla.             *)
(***************************************************************************)
EXTENDS Naturals, FiniteSets, FiniteSetsExt

\* BALANCE_TYPE_AVAILABLE and BALANCE_TYPE_FREEZE (me_balance.h).
AVAILABLE == "available"
FREEZE    == "freeze"
BalanceTypes == {AVAILABLE, FREEZE}

\* balance_get: a missing entry is NULL, read as zero by every caller.
balance_get(b, u, t, a) == b[u][t][a]

\* Slip kept for mutation analysis, not used by Spec: balance_add taking
\* the balance_set path for an existing entry.
balance_add_overwrite(b, u, t, a, x) ==
    IF x < 0 THEN b ELSE [b EXCEPT ![u][t][a] = x]

\* balance_add: refuses a negative amount, otherwise adds.
balance_add(b, u, t, a, x) ==
    IF x < 0 THEN b ELSE [b EXCEPT ![u][t][a] = @ + x]

\* balance_sub: refuses a negative amount, a missing entry, or an entry
\* smaller than the amount; otherwise subtracts (deleting a zero entry).
balance_sub(b, u, t, a, x) ==
    IF x < 0 \/ b[u][t][a] = 0 \/ b[u][t][a] < x
    THEN b
    ELSE [b EXCEPT ![u][t][a] = @ - x]

\* The early returns of balance_freeze / balance_unfreeze: a negative
\* amount, a missing source entry, or a source entry below the amount.
freeze_refused(b, u, a, x) ==
    x < 0 \/ b[u][AVAILABLE][a] = 0 \/ b[u][AVAILABLE][a] < x
unfreeze_refused(b, u, a, x) ==
    x < 0 \/ b[u][FREEZE][a] = 0 \/ b[u][FREEZE][a] < x

\* balance_freeze: refuses unless the available entry exists and covers
\* the amount; then adds it to FREEZE and subtracts it from AVAILABLE.
balance_freeze(b, u, a, x) ==
    IF freeze_refused(b, u, a, x)
    THEN b
    ELSE [b EXCEPT ![u][FREEZE][a]    = @ + x,
                   ![u][AVAILABLE][a] = @ - x]

\* balance_unfreeze: the mirror image of balance_freeze.
balance_unfreeze(b, u, a, x) ==
    IF unfreeze_refused(b, u, a, x)
    THEN b
    ELSE [b EXCEPT ![u][AVAILABLE][a] = @ + x,
                   ![u][FREEZE][a]    = @ - x]

\* balance_total: available plus frozen.
balance_total(b, u, a) == b[u][AVAILABLE][a] + b[u][FREEZE][a]

\* Slip kept for mutation analysis, not used by Spec: the total summed
\* inside the AVAILABLE branch only.
balance_status_totalAvailable(b, a) ==
    LET sum(t)   == MapThenSumSet(LAMBDA u : b[u][t][a], DOMAIN b)
        count(t) == Cardinality({u \in DOMAIN b : b[u][t][a] # 0})
    IN  [total |-> sum(AVAILABLE),
         available_count |-> count(AVAILABLE), available |-> sum(AVAILABLE),
         freeze_count |-> count(FREEZE), freeze |-> sum(FREEZE)]

\* balance_status: one walk over dict_balance that adds every entry of the
\* asset to the total and to available or freeze, and counts the entries
\* of each type.  Every operation above deletes an entry that reaches
\* zero, so the entries are exactly the non-zero balances.
balance_status(b, a) ==
    LET sum(t)   == MapThenSumSet(LAMBDA u : b[u][t][a], DOMAIN b)
        count(t) == Cardinality({u \in DOMAIN b : b[u][t][a] # 0})
    IN  [total |-> sum(AVAILABLE) + sum(FREEZE),
         available_count |-> count(AVAILABLE), available |-> sum(AVAILABLE),
         freeze_count |-> count(FREEZE), freeze |-> sum(FREEZE)]

=============================================================================
