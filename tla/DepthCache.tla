----------------------------- MODULE DepthCache -----------------------------
(***************************************************************************)
(* The response cache of the match engine's rpc server                   *)
(* (src/matchengine/me_server.c): order.depth replies are kept in         *)
(* dict_cache under the key (command, request body), stamped with         *)
(* current_timestamp(); process_cache serves an entry while it is at most *)
(* settings.cache_timeout old, and on_cache_timer, a repeating 60 s       *)
(* nw_timer, clears the whole dictionary.                                 *)
(*                                                                         *)
(* Two clocks.  loop_time is the event loop's time, which drives         *)
(* nw_timer and stands for real time; wall is what current_timestamp()    *)
(* returns, a wall clock that an administrator or NTP may step back.     *)
(* A tick advances both.  The timer fires when it is due: the handlers   *)
(* of the single-threaded server are short.                              *)
(*                                                                         *)
(* The order book is the environment: any other command may change it.   *)
(* A depth is abstracted to the request it answers and the version of the *)
(* book it was computed from; superseded records when each version       *)
(* stopped being the book (a ghost).                                     *)
(***************************************************************************)
EXTENDS Integers, TLC

CONSTANTS
    Requests,            \* order.depth parameters (market, limit, interval) that pass the checks
    Invalid,             \* parameters refused: unknown market, limit > ORDER_BOOK_MAX_LEN, interval < 0
    CACHE_TIMEOUT,       \* settings.cache_timeout, in ticks
    CACHE_TIMER_PERIOD,  \* the period of cache_timer (60 s), in ticks
    CLOCK_STEP,          \* how far the wall clock steps back, in ticks
    MaxClockSteps,       \* bound on backward steps of the wall clock
    MaxTime,             \* bound on loop_time
    MaxVersion           \* bound on changes of the book

ASSUME /\ CACHE_TIMEOUT \in Nat /\ CACHE_TIMER_PERIOD \in Nat \ {0}
       /\ CLOCK_STEP \in Nat \ {0} /\ MaxClockSteps \in Nat
       /\ MaxTime \in Nat /\ MaxVersion \in Nat
       /\ Requests \cap Invalid = {}

CMD_ORDER_BOOK_DEPTH == "order.depth"

NoReply          == [kind |-> "none"]
InvalidArgument  == [kind |-> "error"]

VARIABLES
    loop_time,    \* the event loop's clock
    wall,         \* current_timestamp()
    cache,        \* dict_cache: key -> cache_val [time, result], plus a ghost gen
    timer_due,    \* loop_time at which on_cache_timer fires next
    version,      \* the book's version
    superseded,   \* ghost: [0..MaxVersion -> loop_time at which the version was replaced]
    steps,        \* ghost: backward steps of the wall clock so far
    reply         \* the last reply written: NoReply, InvalidArgument or a depth

vars == <<loop_time, wall, cache, timer_due, version, superseded, steps, reply>>

\* The key process_cache builds: the command number, then the body.
CacheKey_commandOnly(k) == <<CMD_ORDER_BOOK_DEPTH>>
CacheKey(k) == <<CMD_ORDER_BOOK_DEPTH, k>>

\* get_depth / get_depth_merge: the depth of the book as it is now.
get_depth(k) == [req |-> k, version |-> version]

Results == [req : Requests, version : 0..MaxVersion]
Entries == [time : Int, result : Results, gen : 0..MaxClockSteps]
Depths  == [kind : {"depth"}, req : Requests, result : Results,
            gen : 0..MaxClockSteps, at : 0..MaxTime]

\* process_cache finds the key and the entry is not older than the timeout.
CacheHit_noExpiry(key) == key \in DOMAIN cache
CacheHit(key) ==
    /\ key \in DOMAIN cache
    /\ ~(wall - cache[key].time > CACHE_TIMEOUT)

\* add_cache: dict_replace stores the result stamped with the wall time.
add_cache(key, result) ==
    (key :> [time |-> wall, result |-> result, gen |-> steps]) @@ cache

Init ==
    /\ loop_time = 0
    /\ wall = 0
    /\ cache = [key \in {} |-> NoReply]
    /\ timer_due = CACHE_TIMER_PERIOD
    /\ version = 0
    /\ superseded = [v \in 0..MaxVersion |-> 0]
    /\ steps = 0
    /\ reply = NoReply

\* on_cmd_order_book_depth for parameters the checks let through: a hit is
\* replied from the cache; a miss (or an expired entry, which process_cache
\* deletes first) computes the depth, caches it and replies it.
DepthRequest(k) ==
    LET key == CacheKey(k) IN
    /\ IF CacheHit(key)
         THEN /\ reply' = [kind |-> "depth", req |-> k, result |-> cache[key].result,
                           gen |-> cache[key].gen, at |-> loop_time]
              /\ UNCHANGED cache
         ELSE /\ cache' = add_cache(key, get_depth(k))
              /\ reply' = [kind |-> "depth", req |-> k, result |-> get_depth(k),
                           gen |-> steps, at |-> loop_time]
    /\ UNCHANGED <<loop_time, wall, timer_due, version, superseded, steps>>

\* on_cmd_order_book_depth: a parameter check fails before process_cache.
on_cmd_order_book_depth_noValidate(k) == DepthRequest(k)
on_cmd_order_book_depth(k) ==
    IF k \in Invalid
      THEN /\ reply' = InvalidArgument
           /\ UNCHANGED <<loop_time, wall, cache, timer_due, version, superseded, steps>>
      ELSE DepthRequest(k)

\* on_cache_timer: dict_clear; the timer was set to repeat.
on_cache_timer_once ==
    /\ loop_time = timer_due
    /\ cache' = [key \in {} |-> NoReply]
    /\ timer_due' = MaxTime + 1
    /\ UNCHANGED <<loop_time, wall, version, superseded, steps, reply>>
on_cache_timer ==
    /\ loop_time = timer_due
    /\ cache' = [key \in {} |-> NoReply]
    /\ timer_due' = timer_due + CACHE_TIMER_PERIOD
    /\ UNCHANGED <<loop_time, wall, version, superseded, steps, reply>>

\* Time passes; a due timer runs first.
Tick ==
    /\ loop_time < MaxTime
    /\ loop_time < timer_due
    /\ loop_time' = loop_time + 1
    /\ wall' = wall + 1
    /\ UNCHANGED <<cache, timer_due, version, superseded, steps, reply>>

\* The wall clock is stepped back (environment).
ClockStepBack ==
    /\ steps < MaxClockSteps
    /\ wall' = wall - CLOCK_STEP
    /\ steps' = steps + 1
    /\ UNCHANGED <<loop_time, cache, timer_due, version, superseded, reply>>

\* Another command changes the book (environment).
BookChange ==
    /\ version < MaxVersion
    /\ version' = version + 1
    /\ superseded' = [superseded EXCEPT ![version] = loop_time]
    /\ UNCHANGED <<loop_time, wall, cache, timer_due, steps, reply>>

Next ==
    \/ \E k \in Requests \cup Invalid : on_cmd_order_book_depth(k)
    \/ on_cache_timer
    \/ Tick
    \/ ClockStepBack
    \/ BookChange

Spec == Init /\ [][Next]_vars

-----------------------------------------------------------------------------
\* The version v was the book at some moment of the d ticks before at.
Fresh(v, at, d) == v = version \/ superseded[v] + d >= at

TypeOK ==
    /\ loop_time \in 0..MaxTime
    /\ cache \in [DOMAIN cache -> Entries]
    /\ DOMAIN cache \subseteq {CacheKey(k) : k \in Requests}
    /\ timer_due \in loop_time..loop_time + CACHE_TIMER_PERIOD
    /\ version \in 0..MaxVersion
    /\ steps \in 0..MaxClockSteps
    /\ reply \in {NoReply, InvalidArgument} \cup Depths

\* An order.depth reply, from the cache or not, is the depth for the
\* market, limit and interval of the request it answers: process_cache
\* keys the entry by the command and the whole request body.
ReplyMatchesRequest ==
    reply.kind = "depth" => reply.result.req = reply.req

\* The staleness bound spec.md promises for cached depth: a depth served
\* while the wall clock has not stepped back since it was cached shows the
\* book as it was at most cache_timeout before (the expiry test of
\* process_cache, line 121).
CachedDepthFresh ==
    reply.kind = "depth" /\ reply.gen = steps
        => Fresh(reply.result.version, reply.at, CACHE_TIMEOUT)

\* Whatever the wall clock does, a served depth shows the book as it was at
\* most one cache_timer period before: the repeating on_cache_timer clears
\* entries whose wall-clock stamp lies in the future.
CachedDepthBounded ==
    reply.kind = "depth" => Fresh(reply.result.version, reply.at, CACHE_TIMER_PERIOD)
=============================================================================
