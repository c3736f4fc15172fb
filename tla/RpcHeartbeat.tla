---------------------------- MODULE RpcHeartbeat ----------------------------
(***************************************************************************)
(* The heartbeat check of an rpc server (src/utils/ut_rpc_svr.c) as the   *)
(* access gateway's listener runs it (src/accesshttp/ah_listener.c): the  *)
(* worker processes connect to worker_svr (heartbeat_check = true) and   *)
(* send heartbeats; the listener hands each accepted HTTP client socket   *)
(* to a worker session picked at random (listener_on_accept).            *)
(*                                                                         *)
(* Time is discrete: a tick is MS_PER_TICK milliseconds.  Instead of     *)
(* timestamps the model keeps, per session, age = now - last_heartbeat    *)
(* (capped once it exceeds every timeout), and the ticks since the timer  *)
(* last fired.  The timer (RPC_HEARTBEAT_INTERVAL, repeating) fires when  *)
(* it is due: the listener's handlers are short.                          *)
(*                                                                         *)
(* Two clocks.  The timer runs on the event loop's time; now and          *)
(* last_heartbeat are current_timestamp(), a wall clock that an           *)
(* administrator or NTP may step forward or back by CLOCK_STEP, which     *)
(* shifts every age at once.  The ghost skew is the net step since a      *)
(* session was last stamped, so age - skew is its real silence.           *)
(*                                                                         *)
(* The workers are the environment.  A worker process is down, alive     *)
(* (it heartbeats at least every PEER_PERIOD ticks) or hung (it sends     *)
(* nothing, its socket stays open).  One session per worker process.     *)
(***************************************************************************)
EXTENDS Integers, Sequences, SequencesExt

CONSTANTS
    Workers,                 \* worker processes of the gateway
    INTERVAL,                \* RPC_HEARTBEAT_INTERVAL, in ticks
    TIMEOUT_DEFAULT,         \* RPC_HEARTBEAT_TIMEOUT_DEFAULT, in ticks
    TIMEOUT_MIN,             \* RPC_HEARTBEAT_TIMEOUT_MIN, in ticks
    TIMEOUT_MAX,             \* RPC_HEARTBEAT_TIMEOUT_MAX, in ticks
    MS_PER_TICK,             \* milliseconds per tick
    Declared,                \* timeouts (ms) a worker may declare
    PEER_PERIOD,             \* an alive worker heartbeats within this
    CLOCK_STEP,              \* how far the wall clock steps, in ticks
    MaxClockSteps            \* bound on steps of the wall clock

ASSUME /\ INTERVAL >= 1 /\ 1 <= TIMEOUT_MIN
       /\ TIMEOUT_MIN <= TIMEOUT_DEFAULT /\ TIMEOUT_DEFAULT <= TIMEOUT_MAX
       /\ \A d \in Declared : d % MS_PER_TICK = 0
       /\ PEER_PERIOD <= TIMEOUT_MIN /\ 0 \notin Declared
       /\ CLOCK_STEP \in Nat /\ MaxClockSteps \in Nat

\* Ages beyond this are past every timeout even after every step back;
\* the cap keeps time finite.
MAX_SKEW == MaxClockSteps * CLOCK_STEP
AGE_CAP  == TIMEOUT_MAX + INTERVAL + 1 + MAX_SKEW
Capped(a) == IF a < AGE_CAP THEN a ELSE AGE_CAP

NoDecl   == 0    \* no timeout declared (0 ms is not a declarable value)
NoWorker == "none"

\* The fields of a heartbeat body (type-length-value, little endian):
\* a well-formed RPC_HEARTBEAT_TYPE_TIMEOUT with its value in ms, one with
\* a length other than 4, a field of another type, and a field whose
\* header or length runs past the end of the body.
Tmo(d)    == [kind |-> "timeout", ms |-> d]
TmoBadLen == [kind |-> "badlen", ms |-> 0]
Other     == [kind |-> "other", ms |-> 0]
Truncated == [kind |-> "truncated", ms |-> 0]

Bodies ==
    {<<>>, <<TmoBadLen>>}
    \cup UNION {{<<Tmo(d)>>, <<Other, Tmo(d)>>, <<Tmo(d), Truncated>>} : d \in Declared}

VARIABLES
    peer,          \* [Workers -> {"down", "alive", "hung"}]: the environment
    ses_list,      \* raw_svr->ses_list_head .. tail, as a sequence of workers
    ses_count,     \* raw_svr->ses_count
    age,           \* [Workers -> Nat]: now - info->last_heartbeat
    hb_timeout,    \* [Workers -> Nat]: info->heartbeat_timeout, in ticks
    phase,         \* ticks since on_timer last ran
    declared,      \* ghost: the timeout the worker last declared, or NoDecl
    false_close,   \* ghost: on_timer closed a worker that heartbeats on time
    choice_failed, \* ghost: a client was refused with a session open
    last_client,   \* ghost: the worker that got the last client, or NoWorker
    skew,          \* ghost: [Workers -> Int]: wall steps since the last stamp
    steps          \* ghost: wall clock steps so far

vars == <<peer, ses_list, ses_count, age, hb_timeout, phase, declared,
          false_close, choice_failed, last_client, skew, steps>>

Init ==
    /\ peer \in [Workers -> {"down", "alive"}]
    /\ ses_list = <<>>
    /\ ses_count = 0
    \* privdata comes from nw_cache: its contents before on_new_connection
    \* are whatever a freed block held
    /\ age \in [Workers -> 0..AGE_CAP]
    /\ hb_timeout \in [Workers -> TIMEOUT_MIN..TIMEOUT_MAX]
    /\ phase = 0
    /\ declared = [w \in Workers |-> NoDecl]
    /\ false_close = FALSE
    /\ choice_failed = FALSE
    /\ last_client = NoWorker
    /\ skew = [w \in Workers |-> 0]
    /\ steps = 0

Open(w) == \E i \in 1..Len(ses_list) : ses_list[i] = w

\* Slip kept for mutation analysis, not used by Spec: the clamp without
\* the RPC_HEARTBEAT_TIMEOUT_MAX branch.
Clamp_noMax(ms) ==
    LET t == ms \div MS_PER_TICK
    IN  IF t < TIMEOUT_MIN THEN TIMEOUT_MIN ELSE t

\* The clamp of on_heartbeat: ms to seconds, then into [MIN, MAX].
Clamp(ms) ==
    LET t == ms \div MS_PER_TICK
    IN  IF t > TIMEOUT_MAX THEN TIMEOUT_MAX
        ELSE IF t < TIMEOUT_MIN THEN TIMEOUT_MIN ELSE t

\* The field loop of on_heartbeat from the current timeout: the timeout
\* after the fields, and whether the loop ran to the end (return 0) or
\* failed on a malformed field (return -__LINE__).
RECURSIVE ParseHeartbeat(_, _)
ParseHeartbeat(fields, tmo) ==
    IF fields = <<>> THEN [ok |-> TRUE, timeout |-> tmo]
    ELSE LET f == Head(fields) IN
         CASE f.kind = "timeout"   -> ParseHeartbeat(Tail(fields), Clamp(f.ms))
           [] f.kind = "other"     -> ParseHeartbeat(Tail(fields), tmo)
           [] OTHER                -> [ok |-> FALSE, timeout |-> tmo]

\* Slip kept for mutation analysis, not used by Spec: ses_count not
\* decremented by a close.
nw_svr_close_ses_keepCount(ws) ==
    /\ ses_list' = SelectSeq(ses_list, LAMBDA x : x \notin ws)
    /\ UNCHANGED ses_count

\* nw_svr_close_ses for the sessions of the workers in ws: unlink them
\* and decrement ses_count once each.
nw_svr_close_ses(ws) ==
    /\ ses_list' = SelectSeq(ses_list, LAMBDA x : x \notin ws)
    /\ ses_count' = ses_count - Cardinality(ws)

\* Slip kept for mutation analysis, not used by Spec: on_new_connection
\* that leaves the privdata as nw_cache handed it out.
Connect_noReset(w) ==
    /\ peer[w] = "alive"
    /\ ~Open(w)
    /\ ses_list' = Append(ses_list, w)
    /\ ses_count' = ses_count + 1
    /\ declared' = [declared EXCEPT ![w] = NoDecl]
    /\ skew' = [skew EXCEPT ![w] = 0]
    /\ UNCHANGED <<peer, age, hb_timeout, phase, false_close, choice_failed,
                   last_client, steps>>

\* A worker connects: nw_svr_add_ses appends the session and counts it,
\* then ut_rpc_svr's on_new_connection stamps last_heartbeat = now and
\* sets the default timeout (worker_on_new_connection only logs).
Connect(w) ==
    /\ peer[w] = "alive"
    /\ ~Open(w)
    /\ ses_list' = Append(ses_list, w)
    /\ ses_count' = ses_count + 1
    /\ age' = [age EXCEPT ![w] = 0]
    /\ hb_timeout' = [hb_timeout EXCEPT ![w] = TIMEOUT_DEFAULT]
    /\ declared' = [declared EXCEPT ![w] = NoDecl]
    /\ skew' = [skew EXCEPT ![w] = 0]
    /\ UNCHANGED <<peer, phase, false_close, choice_failed, last_client, steps>>

\* The timeout a body declares, if any (the ghost of what the worker asked).
DeclaredBy(body, old) ==
    LET ds == {body[i].ms : i \in {j \in DOMAIN body : body[j].kind = "timeout"}}
    IN  IF ds = {} THEN old ELSE CHOOSE d \in ds : TRUE

\* on_recv_pkg with RPC_CMD_HEARTBEAT: on_heartbeat stamps the session,
\* walks the fields, and replies; a negative return closes the session.
on_heartbeat(w, body) ==
    /\ Open(w)
    /\ peer[w] = "alive"
    /\ LET r == ParseHeartbeat(body, hb_timeout[w]) IN
       /\ age' = [age EXCEPT ![w] = 0]
       /\ hb_timeout' = [hb_timeout EXCEPT ![w] = r.timeout]
       /\ declared' = [declared EXCEPT ![w] = DeclaredBy(body, @)]
       /\ skew' = [skew EXCEPT ![w] = 0]
       /\ IF r.ok THEN UNCHANGED <<ses_list, ses_count>>
                  ELSE nw_svr_close_ses({w})
    /\ UNCHANGED <<peer, phase, false_close, choice_failed, last_client, steps>>

\* One tick of time.  An alive worker's heartbeat is due before time may
\* pass it, and so is the timer.
Tick ==
    /\ phase < INTERVAL
    /\ \A w \in Workers : Open(w) /\ peer[w] = "alive" => age[w] - skew[w] < PEER_PERIOD
    /\ age' = [w \in Workers |-> Capped(age[w] + 1)]
    /\ phase' = phase + 1
    /\ UNCHANGED <<peer, ses_list, ses_count, hb_timeout, declared,
                   false_close, choice_failed, last_client, skew, steps>>

\* The wall clock is stepped forward or back (environment): every
\* now - last_heartbeat changes by the step.
ClockStep ==
    /\ steps < MaxClockSteps
    /\ \E d \in {CLOCK_STEP, -CLOCK_STEP} :
         /\ age' = [w \in Workers |-> Capped(age[w] + d)]
         /\ skew' = [w \in Workers |-> skew[w] + d]
    /\ steps' = steps + 1
    /\ UNCHANGED <<peer, ses_list, ses_count, hb_timeout, phase, declared,
                   false_close, choice_failed, last_client>>

\* Slip kept for mutation analysis, not used by Spec: the sweep stops
\* after the first session it closes.
on_timer_firstOnly ==
    /\ phase = INTERVAL
    /\ LET idx == {i \in 1..Len(ses_list) : age[ses_list[i]] > hb_timeout[ses_list[i]]}
           expired == IF idx = {} THEN {} ELSE {ses_list[Min(idx)]}
       IN  /\ nw_svr_close_ses(expired)
           /\ false_close' = (false_close \/ \E w \in expired : peer[w] = "alive" /\ skew[w] = 0)
    /\ phase' = 0
    /\ UNCHANGED <<peer, age, hb_timeout, declared, choice_failed, last_client,
                   skew, steps>>

\* on_timer: walk the session list and close every session whose
\* now - last_heartbeat exceeds its heartbeat_timeout (next is read before
\* the close; worker_on_connection_close only logs).
on_timer ==
    /\ phase = INTERVAL
    /\ LET expired == {w \in ToSet(ses_list) : age[w] > hb_timeout[w]}
       IN  /\ nw_svr_close_ses(expired)
           /\ false_close' = (false_close \/ \E w \in expired : peer[w] = "alive" /\ skew[w] = 0)
    /\ phase' = 0
    /\ UNCHANGED <<peer, age, hb_timeout, declared, choice_failed, last_client,
                   skew, steps>>

\* listener_on_accept: no session, or rand() % ses_count steps down the
\* list from the head; nw_ses_send_fd may fail (the worker's buffer is
\* full).  Every failure returns -1 and nw_svr closes the client socket.
listener_on_accept ==
    /\ \/ /\ ses_count = 0
          /\ last_client' = NoWorker
          /\ UNCHANGED choice_failed
       \/ /\ ses_count > 0
          /\ \E k \in 0..(ses_count - 1) :
               IF k < Len(ses_list)
               THEN /\ \E sent \in BOOLEAN :
                         last_client' = IF sent THEN ses_list[k + 1] ELSE NoWorker
                    /\ UNCHANGED choice_failed
               ELSE /\ choice_failed' = TRUE
                    /\ last_client' = NoWorker
    /\ UNCHANGED <<peer, ses_list, ses_count, age, hb_timeout, phase,
                   declared, false_close, skew, steps>>

\* The environment: a worker hangs, a worker process exits (the event
\* loop reads EOF or an error and nw_svr's on_close / on_error close the
\* session), a worker process is started again.
Hang(w) ==
    /\ peer[w] = "alive"
    /\ peer' = [peer EXCEPT ![w] = "hung"]
    /\ UNCHANGED <<ses_list, ses_count, age, hb_timeout, phase, declared,
                   false_close, choice_failed, last_client, skew, steps>>

Exit(w) ==
    /\ peer[w] # "down"
    /\ peer' = [peer EXCEPT ![w] = "down"]
    /\ IF Open(w) THEN nw_svr_close_ses({w}) ELSE UNCHANGED <<ses_list, ses_count>>
    /\ UNCHANGED <<age, hb_timeout, phase, declared, false_close,
                   choice_failed, last_client, skew, steps>>

Restart(w) ==
    /\ peer[w] = "down"
    /\ peer' = [peer EXCEPT ![w] = "alive"]
    /\ UNCHANGED <<ses_list, ses_count, age, hb_timeout, phase, declared,
                   false_close, choice_failed, last_client, skew, steps>>

Next ==
    \/ Tick
    \/ on_timer
    \/ listener_on_accept
    \/ ClockStep
    \/ \E w \in Workers :
         \/ Connect(w)
         \/ \E body \in Bodies : on_heartbeat(w, body)
         \/ Hang(w)
         \/ Exit(w)
         \/ Restart(w)

Spec == Init /\ [][Next]_vars

-----------------------------------------------------------------------------
TypeOK ==
    /\ peer \in [Workers -> {"down", "alive", "hung"}]
    /\ ses_list \in Seq(Workers) /\ ses_count \in Nat
    /\ age \in [Workers -> -MAX_SKEW..AGE_CAP]
    /\ skew \in [Workers -> -MAX_SKEW..MAX_SKEW] /\ steps \in 0..MaxClockSteps
    /\ hb_timeout \in [Workers -> TIMEOUT_MIN..TIMEOUT_MAX]
    /\ phase \in 0..INTERVAL
    /\ declared \in [Workers -> Declared \cup {NoDecl}]
    /\ false_close \in BOOLEAN /\ choice_failed \in BOOLEAN
    /\ last_client \in Workers \cup {NoWorker}

\* The timeout a worker asked for, as the protocol means it: its declared
\* milliseconds in seconds, held to [MIN, MAX]; the default until it
\* declares one.
ExpectedTimeout(w) ==
    IF declared[w] = NoDecl THEN TIMEOUT_DEFAULT
    ELSE Max({TIMEOUT_MIN, Min({TIMEOUT_MAX, declared[w] \div MS_PER_TICK})})

\* The heartbeat check (on_timer, ut_rpc_svr.c) never closes the session
\* of a worker that has heartbeaten on time since it connected, whatever
\* the privdata held before on_new_connection and whatever it declared,
\* as long as the wall clock has not stepped since the session was last
\* stamped (a forward step makes every punctual session look silent).
NoFalseTimeout == ~false_close

\* A hung worker's session, and so every client the listener hands it, is
\* closed no later than one timer period after the timeout the worker
\* asked for has run out, as long as the wall clock has not stepped since
\* the session was last stamped (a step back extends its life by the step).
SilentDetected ==
    \A w \in ToSet(ses_list) :
        skew[w] = 0 => age[w] <= ExpectedTimeout(w) + INTERVAL

\* listener_on_accept refuses a client for want of a worker only when no
\* worker session is open: ses_count, kept by every add and close path,
\* never counts past the end of the session list.
DispatchWhenAvailable == ~choice_failed
=============================================================================
