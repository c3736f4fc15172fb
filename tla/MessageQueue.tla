---------------------------- MODULE MessageQueue ----------------------------
(***************************************************************************)
(* The event producer of the match engine (src/matchengine/me_message.c) *)
(* and the back-pressure gate of the command dispatcher (me_server.c,     *)
(* svr_on_recv_pkg).                                                       *)
(*                                                                         *)
(* Each topic has a pending list (list_orders, list_deals, ...).          *)
(* push_message hands a message straight to librdkafka when the list is  *)
(* empty and appends it to the list otherwise; on_timer, every 0.1 s,    *)
(* flushes the lists with produce_list.  librdkafka keeps a local queue  *)
(* of bounded size (QUEUE_FULL when full) that its own thread sends to   *)
(* the broker.  A mutating command is refused while any pending list has *)
(* MAX_PENDING_MESSAGE entries; an accepted one pushes a burst of events  *)
(* (one per fill, placement, finish...) while the event loop is busy, so *)
(* on_timer cannot run in between, but the librdkafka thread can.         *)
(*                                                                         *)
(* Messages are identified by the order they were pushed in; their        *)
(* content is irrelevant here.                                             *)
(***************************************************************************)
EXTENDS Naturals, Sequences, SequencesExt

CONSTANTS
    Topics,              \* the topics (balances, orders, deals)
    Bursts,              \* the topic sequences a command may push
    MAX_PENDING_MESSAGE, \* the dispatcher's gate on a pending list
    QueueCap,            \* librdkafka's local queue bound
    MaxMsgs,             \* bound on the number of messages pushed
    OtherErrors          \* whether librdkafka may fail with an error other
                         \* than QUEUE_FULL (too large, unknown partition...)

ASSUME /\ Bursts \subseteq Seq(Topics)
       /\ MAX_PENDING_MESSAGE \in Nat \ {0}
       /\ QueueCap \in Nat \ {0}
       /\ OtherErrors \in BOOLEAN

VARIABLES
    pending,    \* [Topics -> Seq]: the pending list of each topic
    kqueue,     \* [Topics -> Seq]: librdkafka's local queue of each topic
    delivered,  \* [Topics -> Seq]: what the broker has, in order
    pushed,     \* [Topics -> Seq]: every message pushed, in push order
    burst,      \* the pushes left of the command being handled
    nextMsg     \* the id of the next message

vars == <<pending, kqueue, delivered, pushed, burst, nextMsg>>

\* The outcomes of rd_kafka_produce: it takes the message, or fails with
\* QUEUE_FULL when the local queue is full, or (when OtherErrors) fails
\* with another error.
Produced  == "ok"
QueueFull == "queue_full"
OtherErr  == "other"

\* Slip kept for mutation analysis, not used by Spec: a produce that never
\* reports QUEUE_FULL (its ret == -1 branch not taken).
ProduceOutcomes_noFull(t) ==
    {Produced} \cup (IF OtherErrors THEN {OtherErr} ELSE {})
ProduceOutcomes(t) ==
    (IF Len(kqueue[t]) < QueueCap THEN {Produced} ELSE {QueueFull})
    \cup (IF OtherErrors THEN {OtherErr} ELSE {})

\* Slip kept for mutation analysis, not used by Spec: is_message_block
\* comparing with > instead of >=.
is_message_block_strict ==
    \E t \in Topics : Len(pending[t]) > MAX_PENDING_MESSAGE
\* is_message_block: some pending list has reached the bound.
is_message_block ==
    \E t \in Topics : Len(pending[t]) >= MAX_PENDING_MESSAGE

Init ==
    /\ pending = [t \in Topics |-> <<>>]
    /\ kqueue = [t \in Topics |-> <<>>]
    /\ delivered = [t \in Topics |-> <<>>]
    /\ pushed = [t \in Topics |-> <<>>]
    /\ burst = <<>>
    /\ nextMsg = 1

(***************************************************************************)
(* A mutating command (balance.update, order.put_limit, order.put_market, *)
(* order.cancel) arrives while the event loop is idle.  The gate of       *)
(* svr_on_recv_pkg refuses it ("service unavailable", nothing changes)   *)
(* when is_message_block; otherwise the handler runs and will push b.    *)
(***************************************************************************)
Command(b) ==
    /\ burst = <<>>
    /\ ~is_message_block
    /\ nextMsg + Len(b) <= MaxMsgs + 1
    /\ burst' = b
    /\ UNCHANGED <<pending, kqueue, delivered, pushed, nextMsg>>

\* Slip kept for mutation analysis, not used by Spec: push_message that
\* always tries librdkafka first, ignoring the pending list.
push_message_direct(t, m, outcome) ==
    CASE outcome = Produced  -> UNCHANGED pending /\ kqueue' = [kqueue EXCEPT ![t] = Append(@, m)]
      [] outcome = QueueFull -> pending' = [pending EXCEPT ![t] = Append(@, m)] /\ UNCHANGED kqueue
      [] outcome = OtherErr  -> UNCHANGED <<pending, kqueue>>

(***************************************************************************)
(* push_message: a non-empty pending list takes the message at its tail; *)
(* otherwise rd_kafka_produce is tried, and on QUEUE_FULL the message     *)
(* goes to the list, on any other error it is freed: lost.               *)
(***************************************************************************)
push_message(t, m, outcome) ==
    IF pending[t] # <<>>
    THEN pending' = [pending EXCEPT ![t] = Append(@, m)] /\ UNCHANGED kqueue
    ELSE CASE outcome = Produced  -> UNCHANGED pending /\ kqueue' = [kqueue EXCEPT ![t] = Append(@, m)]
           [] outcome = QueueFull -> pending' = [pending EXCEPT ![t] = Append(@, m)] /\ UNCHANGED kqueue
           [] outcome = OtherErr  -> UNCHANGED <<pending, kqueue>>

\* The handler's next push_order_message / push_deal_message /
\* push_balance_message.
PushNext ==
    /\ burst # <<>>
    /\ LET t == Head(burst) IN
       \E outcome \in ProduceOutcomes(t) :
          /\ push_message(t, nextMsg, outcome)
          /\ pushed' = [pushed EXCEPT ![t] = Append(@, nextMsg)]
    /\ burst' = Tail(burst)
    /\ nextMsg' = nextMsg + 1
    /\ UNCHANGED delivered

(***************************************************************************)
(* produce_list: walk the list from its head, producing each message; on *)
(* QUEUE_FULL stop with the message kept, on any other error log it and  *)
(* delete it anyway.  Returns the new list and the new local queue.      *)
(* outcomes gives the error (if any) of each attempt, in order.          *)
(***************************************************************************)
RECURSIVE produce_list(_, _, _)
produce_list(list, kq, outcomes) ==
    IF list = <<>> THEN <<list, kq>>
    ELSE CASE Head(outcomes) = QueueFull -> <<list, kq>>
           [] Head(outcomes) = OtherErr  -> produce_list(Tail(list), kq, Tail(outcomes))
           [] Head(outcomes) = Produced  ->
                 produce_list(Tail(list), Append(kq, Head(list)), Tail(outcomes))

\* The outcome sequences librdkafka can give a produce_list run over n
\* messages starting from a local queue of length k: a message is taken
\* while there is room, QUEUE_FULL once there is none.
RECURSIVE ListOutcomes(_, _)
ListOutcomes(n, k) ==
    IF n = 0 THEN {<<>>}
    ELSE LET here == (IF k < QueueCap THEN {Produced} ELSE {QueueFull})
                     \cup (IF OtherErrors THEN {OtherErr} ELSE {})
         IN  UNION {{<<o>> \o rest :
                        rest \in ListOutcomes(n - 1, IF o = Produced THEN k + 1 ELSE k)} :
                      o \in here}

\* Slip kept for mutation analysis, not used by Spec: a timer that only
\* flushes one topic's list (a branch of on_timer lost).
on_timer_firstList ==
    LET t0 == CHOOSE t \in Topics : TRUE IN
    /\ burst = <<>>
    /\ \E oc \in ListOutcomes(Len(pending[t0]), Len(kqueue[t0])) :
          LET r == produce_list(pending[t0], kqueue[t0], oc) IN
          /\ pending' = [pending EXCEPT ![t0] = r[1]]
          /\ kqueue' = [kqueue EXCEPT ![t0] = r[2]]
    /\ UNCHANGED <<delivered, pushed, burst, nextMsg>>

(***************************************************************************)
(* on_timer: while the event loop is idle, flush every non-empty list.   *)
(* The lists belong to different topics and librdkafka queues, so the    *)
(* flushes are independent and done in one step.                         *)
(***************************************************************************)
\* The (list, local queue) pairs one produce_list over topic t can leave.
FlushResults(t) ==
    {produce_list(pending[t], kqueue[t], oc) :
        oc \in ListOutcomes(Len(pending[t]), Len(kqueue[t]))}

on_timer ==
    /\ burst = <<>>
    /\ \E r \in [Topics -> UNION {FlushResults(t) : t \in Topics}] :
          /\ \A t \in Topics : r[t] \in FlushResults(t)
          /\ pending' = [t \in Topics |-> r[t][1]]
          /\ kqueue' = [t \in Topics |-> r[t][2]]
    /\ UNCHANGED <<delivered, pushed, burst, nextMsg>>

\* librdkafka's thread sends the head of a local queue to the broker.
KafkaSend(t) ==
    /\ kqueue[t] # <<>>
    /\ delivered' = [delivered EXCEPT ![t] = Append(@, Head(kqueue[t]))]
    /\ kqueue' = [kqueue EXCEPT ![t] = Tail(@)]
    /\ UNCHANGED <<pending, pushed, burst, nextMsg>>

\* on_delivery with an error (when OtherErrors): the message is logged
\* and gone.
DeliveryFailed(t) ==
    /\ OtherErrors
    /\ kqueue[t] # <<>>
    /\ kqueue' = [kqueue EXCEPT ![t] = Tail(@)]
    /\ UNCHANGED <<pending, delivered, pushed, burst, nextMsg>>

Next ==
    \/ \E b \in Bursts : Command(b)
    \/ PushNext
    \/ on_timer
    \/ \E t \in Topics : KafkaSend(t) \/ DeliveryFailed(t)

\* The event loop finishes every handler it starts and runs its repeating
\* 0.1 s timer; librdkafka's thread keeps sending while the broker is up.
\* Clients owe nothing, so Command is not fair.
Fairness ==
    /\ WF_vars(PushNext)
    /\ WF_vars(on_timer)
    /\ \A t \in Topics : WF_vars(KafkaSend(t))

Spec == Init /\ [][Next]_vars /\ Fairness

-----------------------------------------------------------------------------
\* Every variable has its shape; librdkafka's queue never exceeds its bound.
TypeOK ==
    /\ \A t \in Topics :
          /\ pending[t] \in Seq(1 .. MaxMsgs)
          /\ kqueue[t] \in Seq(1 .. MaxMsgs) /\ Len(kqueue[t]) <= QueueCap
          /\ delivered[t] \in Seq(1 .. MaxMsgs)
          /\ pushed[t] \in Seq(1 .. MaxMsgs)
    /\ burst \in Seq(Topics)
    /\ nextMsg \in 1 .. MaxMsgs + 1

\* The spec's contract for the event sink: submission order is preserved
\* and nothing is lost.  Per topic, what the broker has, then what waits
\* in librdkafka, then what waits in the pending list, is exactly what was
\* pushed.  It rests on push_message never overtaking a non-empty list and
\* produce_list stopping at the first QUEUE_FULL.
InOrderNoLoss ==
    \A t \in Topics : delivered[t] \o kqueue[t] \o pending[t] = pushed[t]

\* Even when librdkafka drops messages, what survives keeps push order and
\* is never duplicated: per topic, broker, local queue and pending list
\* together are a strictly increasing selection of what was pushed.  A
\* push_message that overtook a non-empty list, or a produce_list that
\* went on past QUEUE_FULL, would reorder events of one topic.
OrderPreserved ==
    \A t \in Topics :
        LET s == delivered[t] \o kqueue[t] \o pending[t] IN
        /\ IsSorted(s, LAMBDA a, b : a < b)
        /\ ToSet(s) \subseteq ToSet(pushed[t])

\* The gate bounds memory: it is checked once per command and passes only
\* while every list is below MAX_PENDING_MESSAGE, and on_timer cannot run
\* in the middle of a handler, so a list exceeds MAX_PENDING_MESSAGE - 1
\* by at most the number of events one command pushes to its topic.
PendingBounded ==
    \A t \in Topics :
        Len(pending[t]) <=
            MAX_PENDING_MESSAGE - 1
            + Max({Len(SelectSeq(b, LAMBDA x : x = t)) : b \in Bursts})

\* Every message pushed eventually reaches the broker: on_timer keeps
\* flushing the pending lists and librdkafka keeps sending.
EventuallyDelivered ==
    \A t \in Topics, n \in 1 .. MaxMsgs :
        Len(pushed[t]) >= n ~> Len(delivered[t]) >= n
=============================================================================
