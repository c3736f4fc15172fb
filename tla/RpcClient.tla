------------------------------ MODULE RpcClient ------------------------------
(***************************************************************************)
(* The reconnecting stream clients of src/network/nw_clt.c, the transport *)
(* of every rpc_clt: the access gateway runs one per backend (match       *)
(* engine, market price, read history; ah_server.c init_server), each     *)
(* with its own socket, flags and timer, all on one event loop.           *)
(*                                                                         *)
(* A client has one timer (clt->timer), shared by the connect timeout     *)
(* (watch_connect) and the reconnect delay (reconnect_later).  Each peer  *)
(* is the environment: it may be up or down at any time.  nw_ses_connect *)
(* may fail at once (peer down), complete at once (peer up), or leave the *)
(* connect in progress until the event loop reports it (on_connect).     *)
(*                                                                         *)
(* The type.on_close callback belongs to rpc_clt (not in the repository); *)
(* it is taken to return 0, so every failure goes through                 *)
(* reconnect_later rather than the immediate recursive nw_clt_start.      *)
(***************************************************************************)
EXTENDS Naturals

CONSTANTS
    Clients,         \* the rpc_clt instances of the process
    SocketFailures   \* whether socket() (create_socket) may fail, as it
                     \* does when the process runs out of descriptors

ASSUME SocketFailures \in BOOLEAN

NoTimer    == "off"
Reconnect  == "on_reconnect_timeout"
ConnectTmo == "on_connect_timeout"

NoSock     == "none"
Connecting == "connecting"
Open       == "open"

VARIABLES
    started,           \* [Clients -> BOOLEAN]: rpc_clt_start has run
    sock,              \* clt->ses: no socket, connect in progress, open
    connected,         \* clt->connected
    on_connect_called, \* clt->on_connect_called
    timer,             \* the callback clt->timer is armed with
    peer_up,           \* the environment: the peer accepts connections
    reported,          \* ghost: type.on_close was called for this attempt
    reported_twice     \* ghost: it was called again for the same attempt

vars == <<started, sock, connected, on_connect_called, timer, peer_up,
          reported, reported_twice>>

Init ==
    /\ started = [c \in Clients |-> FALSE]
    /\ sock = [c \in Clients |-> NoSock]
    /\ connected = [c \in Clients |-> FALSE]
    /\ on_connect_called = [c \in Clients |-> FALSE]
    /\ timer = [c \in Clients |-> NoTimer]
    /\ peer_up \in [Clients -> BOOLEAN]
    /\ reported = [c \in Clients |-> FALSE]
    /\ reported_twice = [c \in Clients |-> FALSE]

\* The client's socket, flags, timer and ghosts after a step of client c.
Set(c, sk, cn, occ, tm, rep, rep2) ==
    /\ sock' = [sock EXCEPT ![c] = sk]
    /\ connected' = [connected EXCEPT ![c] = cn]
    /\ on_connect_called' = [on_connect_called EXCEPT ![c] = occ]
    /\ timer' = [timer EXCEPT ![c] = tm]
    /\ reported' = [reported EXCEPT ![c] = rep]
    /\ reported_twice' = [reported_twice EXCEPT ![c] = rep2]

\* type.on_close called once more for the current attempt of c.
Rep2After(c) == reported_twice[c] \/ reported[c]

(***************************************************************************)
(* nw_clt_start(c), called at the end of a step in which the caller has  *)
(* already closed the socket; tmr is the timer as the caller left it and *)
(* rep / rep2 the ghost flags.  create_socket may fail (when mayFail):    *)
(* return -1 with nothing more armed.  Otherwise a new attempt clears the *)
(* flags and nw_ses_connect either                                        *)
(*  - fails at once (peer down): on_close, clt_close, reconnect_later,    *)
(*    and then, as on_connect_called is false, watch_connect re-arms the  *)
(*    same timer with on_connect_timeout;                                 *)
(*  - completes at once (peer up): on_connect(true) runs inside it;      *)
(*  - is in progress: watch_connect.                                      *)
(***************************************************************************)
nw_clt_start(c, tmr, mayFail, rep, rep2) ==
    \/ mayFail /\ Set(c, NoSock, FALSE, on_connect_called[c], tmr, rep, rep2)
    \/ ~peer_up[c] /\ Set(c, NoSock, FALSE, FALSE, ConnectTmo, TRUE, rep2)
    \/ peer_up[c] /\ Set(c, Open, TRUE, TRUE, tmr, FALSE, rep2)
    \/ Set(c, Connecting, FALSE, FALSE, ConnectTmo, FALSE, rep2)

\* rpc_clt_start at startup; a failure there stops the process, so only
\* the outcomes without a socket failure are states the process runs in.
Boot(c) ==
    /\ ~started[c]
    /\ started' = [started EXCEPT ![c] = TRUE]
    /\ nw_clt_start(c, NoTimer, FALSE, reported[c], reported_twice[c])
    /\ UNCHANGED peer_up

\* Slip kept for mutation analysis, not used by Spec: clt_close that does
\* not clear clt->connected on a failed connect.
on_connect_keepConnected(c) ==
    /\ sock[c] = Connecting
    /\ IF peer_up[c]
       THEN Set(c, Open, TRUE, TRUE, timer[c], reported[c], reported_twice[c])
       ELSE Set(c, NoSock, TRUE, TRUE, Reconnect, TRUE, Rep2After(c))
    /\ UNCHANGED <<started, peer_up>>

\* on_connect: the event loop reports the outcome of a pending connect.
\* Success sets connected (the connect timer stays armed); failure runs
\* type.on_close, clt_close and reconnect_later.
on_connect(c) ==
    /\ sock[c] = Connecting
    /\ IF peer_up[c]
       THEN Set(c, Open, TRUE, TRUE, timer[c], reported[c], reported_twice[c])
       ELSE Set(c, NoSock, FALSE, TRUE, Reconnect, TRUE, Rep2After(c))
    /\ UNCHANGED <<started, peer_up>>

\* Slip kept for mutation analysis, not used by Spec: on_close without
\* reconnect_later.
on_close_noReconnect(c) ==
    /\ sock[c] = Open
    /\ ~peer_up[c]
    /\ Set(c, NoSock, FALSE, on_connect_called[c], NoTimer, TRUE, Rep2After(c))
    /\ UNCHANGED <<started, peer_up>>

\* on_error / on_close of an open connection whose peer went away:
\* type.on_close, clt_close (which stops the timer), reconnect_later.
on_close(c) ==
    /\ sock[c] = Open
    /\ ~peer_up[c]
    /\ Set(c, NoSock, FALSE, on_connect_called[c], Reconnect, TRUE, Rep2After(c))
    /\ UNCHANGED <<started, peer_up>>

\* on_reconnect_timeout: the delay is over; nw_clt_start.
on_reconnect_timeout(c) ==
    /\ timer[c] = Reconnect
    /\ nw_clt_start(c, NoTimer, SocketFailures, reported[c], reported_twice[c])
    /\ UNCHANGED <<started, peer_up>>

\* Slip kept for mutation analysis, not used by Spec: the connect timeout
\* without the on_connect_called check.
on_connect_timeout_unchecked(c) ==
    /\ timer[c] = ConnectTmo
    /\ nw_clt_start(c, NoTimer, SocketFailures, TRUE, Rep2After(c))
    /\ UNCHANGED <<started, peer_up>>

\* on_connect_timeout: unless on_connect has run, nw_clt_close (which
\* calls type.on_close and clt_close) and nw_clt_start.
on_connect_timeout(c) ==
    /\ timer[c] = ConnectTmo
    /\ IF on_connect_called[c]
       THEN Set(c, sock[c], connected[c], TRUE, NoTimer, reported[c], reported_twice[c])
       ELSE nw_clt_start(c, NoTimer, SocketFailures, TRUE, Rep2After(c))
    /\ UNCHANGED <<started, peer_up>>

\* The peer of c goes down or comes back.
PeerChange(c) ==
    /\ peer_up' = [peer_up EXCEPT ![c] = ~@]
    /\ UNCHANGED <<started, sock, connected, on_connect_called, timer,
                   reported, reported_twice>>

Next ==
    \E c \in Clients :
        \/ Boot(c)
        \/ on_connect(c)
        \/ on_close(c)
        \/ on_reconnect_timeout(c)
        \/ on_connect_timeout(c)
        \/ PeerChange(c)

\* The event loop runs startup, fires armed timers and reports pending
\* connects (the kernel completes or fails every connect); the peers owe
\* nothing.
Fairness ==
    \A c \in Clients :
        /\ WF_vars(Boot(c))
        /\ WF_vars(on_connect(c))
        /\ WF_vars(on_close(c))
        /\ WF_vars(on_reconnect_timeout(c))
        /\ WF_vars(on_connect_timeout(c))

Spec == Init /\ [][Next]_vars /\ Fairness

-----------------------------------------------------------------------------
\* Every variable has its shape, and nw_clt_connected is only true of an
\* open socket: rpc_clt_send and the gateway's rpc_clt_connected check
\* rely on it.
TypeOK ==
    /\ started \in [Clients -> BOOLEAN] /\ peer_up \in [Clients -> BOOLEAN]
    /\ sock \in [Clients -> {NoSock, Connecting, Open}]
    /\ timer \in [Clients -> {NoTimer, Reconnect, ConnectTmo}]
    /\ on_connect_called \in [Clients -> BOOLEAN]
    /\ reported \in [Clients -> BOOLEAN]
    /\ reported_twice \in [Clients -> BOOLEAN]
    /\ connected \in [Clients -> BOOLEAN]
    /\ \A c \in Clients : connected[c] => sock[c] = Open

\* A started client that is not connected always has a wake-up pending:
\* a connect in progress or an armed timer.  Otherwise nothing in the
\* event loop will ever call nw_clt_start for it again.
RetryPending ==
    \A c \in Clients :
        started[c] /\ sock[c] # Open => sock[c] = Connecting \/ timer[c] # NoTimer

\* Each connection attempt is reported to type.on_close at most once.
CloseReportedOnce == \A c \in Clients : ~reported_twice[c]

\* If a peer eventually stays up, its client eventually stays connected.
EventuallyConnected ==
    \A c \in Clients : <>[]peer_up[c] => <>[]connected[c]
=============================================================================
