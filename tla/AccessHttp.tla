----------------------------- MODULE AccessHttp -----------------------------
(***************************************************************************)
(* A worker of the HTTP access gateway (src/accesshttp/ah_server.c) on    *)
(* top of the session table of src/network/nw_svr.c.                      *)
(*                                                                         *)
(* Client connections are nw_ses objects taken from the server's nw_cache *)
(* and given a fresh id from svr->id_start.  on_http_request forwards a   *)
(* request to a backend with a new nw_state entry whose sequence number   *)
(* is the RPC sequence; the entry remembers the session pointer and its   *)
(* id.  The reply (on_backend_recv_pkg) or the entry's timeout            *)
(* (on_state_timeout) answers the client, but only if the session memory *)
(* still carries the id it had when the request came in.  A closed        *)
(* session's memory goes back to the cache (nw_svr_close_ses) and is     *)
(* handed to the next accepted connection.                                *)
(*                                                                         *)
(* The cache is modelled as the code uses it: a LIFO free list of slots   *)
(* whose contents survive the free, and fresh slots when the list is      *)
(* empty.  Each accepted connection also gets a ghost number, conn, that  *)
(* nothing in the code sees, to say who a reply really reaches.           *)
(***************************************************************************)
EXTENDS Naturals, Sequences, FiniteSets

CONSTANTS
    Slots,        \* memory the session cache can hand out
    MaxAccepts,   \* bound on accepted connections
    MaxStates     \* bound on nw_state entries ever created

ASSUME MaxAccepts \in Nat /\ MaxStates \in Nat

VARIABLES
    fresh,        \* slots never allocated
    freelist,     \* nw_cache's free array, last freed at the end
    open,         \* slots in the session list
    ses_id,       \* [Slots -> Nat]: the id field of each slot's memory
    id_start,     \* svr->id_start
    ses_count,    \* svr->ses_count
    conn,         \* ghost: [Slots -> Nat], the connection using the slot
    nconn,        \* ghost: connections accepted so far
    entries,      \* the nw_state table: [seq, slot, ses_id, conn]
    state_id,     \* the last nw_state sequence handed out
    backend,      \* sequences whose request the backend still owes
    connected,    \* rpc_clt_connected of the backend client
    sent,         \* every reply to a forwarded request: [seq, to, for, open, code]
    refused       \* the connections answered at once with 400, 404 or 500

vars == <<fresh, freelist, open, ses_id, id_start, ses_count, conn, nconn,
          entries, state_id, backend, connected, sent, refused>>

Init ==
    /\ fresh = Slots
    /\ freelist = <<>>
    /\ open = {}
    /\ ses_id = [s \in Slots |-> 0]
    /\ id_start = 0
    /\ ses_count = 0
    /\ conn = [s \in Slots |-> 0]
    /\ nconn = 0
    /\ entries = {}
    /\ state_id = 0
    /\ backend = {}
    /\ connected = FALSE
    /\ sent = {}
    /\ refused = {}

\* The slot nw_cache_alloc returns: the last one freed, else a new one.
CacheAlloc ==
    IF freelist # <<>> THEN {freelist[Len(freelist)]} ELSE fresh

\* nw_cache_alloc's bookkeeping for slot s.
TakeSlot(s) ==
    IF freelist # <<>>
    THEN freelist' = SubSeq(freelist, 1, Len(freelist) - 1) /\ fresh' = fresh
    ELSE fresh' = fresh \ {s} /\ freelist' = freelist

\* The id nw_svr_add_ses gives: id_start++, taken again if it was 0.
NextId(n) == IF n = 0 THEN 1 ELSE n
IdStartAfter(n) == IF n = 0 THEN 2 ELSE n + 1

(***************************************************************************)
(* on_worker_recv_fd -> nw_svr_add_ses_by_fd -> nw_svr_add_ses: take a    *)
(* slot, memset it, then either nw_ses_init fails (the slot goes back to  *)
(* the cache, zeroed) or the session gets its id and joins the list.      *)
(***************************************************************************)
Accept ==
    /\ nconn < MaxAccepts
    /\ \E s \in CacheAlloc :
         \/ /\ TakeSlot(s)
            /\ open' = open \cup {s}
            /\ ses_id' = [ses_id EXCEPT ![s] = NextId(id_start)]
            /\ id_start' = IdStartAfter(id_start)
            /\ ses_count' = ses_count + 1
            /\ conn' = [conn EXCEPT ![s] = nconn + 1]
            /\ nconn' = nconn + 1
         \/ /\ ses_id' = [ses_id EXCEPT ![s] = 0]
            /\ IF freelist # <<>> THEN UNCHANGED <<fresh, freelist>>
               ELSE fresh' = fresh \ {s} /\ freelist' = Append(freelist, s)
            /\ UNCHANGED <<open, id_start, ses_count, conn, nconn>>
    /\ UNCHANGED <<entries, state_id, backend, connected, sent, refused>>

\* Slip kept for mutation analysis, not used by Spec: nw_svr_close_ses
\* without the ses_count decrement.
Close_keepCount(s) ==
    /\ s \in open
    /\ ses_id[s] # 0
    /\ open' = open \ {s}
    /\ freelist' = Append(freelist, s)
    /\ UNCHANGED <<fresh, ses_id, id_start, ses_count, conn, nconn, entries,
                   state_id, backend, connected, sent, refused>>

\* nw_svr_close_ses on a client session (on_close or on_error): unlink it,
\* release it and return its memory to the cache; the id stays in it.
Close(s) ==
    /\ s \in open
    /\ ses_id[s] # 0
    /\ open' = open \ {s}
    /\ freelist' = Append(freelist, s)
    /\ ses_count' = ses_count - 1
    /\ UNCHANGED <<fresh, ses_id, id_start, conn, nconn, entries, state_id,
                   backend, connected, sent, refused>>

\* A response written to the session memory in slot s for a request of
\* connection c.
Reply(seq, s, c, code) ==
    [seq |-> seq, to |-> conn[s], for |-> c, open |-> s \in open, code |-> code]

(***************************************************************************)
(* on_http_request on an open session.  A request that is not a POST     *)
(* with a well-formed body gets 400, an unknown method 404, a method      *)
(* whose backend is not connected 500; otherwise a state entry is added   *)
(* and the request is sent with the entry's id as its sequence.           *)
(***************************************************************************)
HttpRequest(s) ==
    /\ s \in open
    /\ \/ \* reply_bad_request, reply_not_found
          /\ refused' = refused \cup {conn[s]}
          /\ UNCHANGED <<entries, state_id, backend>>
       \/ /\ ~connected   \* reply_internal_error
          /\ refused' = refused \cup {conn[s]}
          /\ UNCHANGED <<entries, state_id, backend>>
       \/ /\ connected
          /\ state_id < MaxStates
          /\ state_id' = state_id + 1
          /\ entries' = entries \cup
               {[seq |-> state_id + 1, slot |-> s, ses_id |-> ses_id[s], conn |-> conn[s]]}
          /\ backend' = backend \cup {state_id + 1}
          /\ UNCHANGED refused
    /\ UNCHANGED <<fresh, freelist, open, ses_id, id_start, ses_count, conn,
                   nconn, connected, sent>>

\* Slip kept for mutation analysis, not used by Spec: the timeout handler
\* with the id comparison inverted.
on_state_timeout_inverted(e) ==
    /\ e \in entries
    /\ sent' = IF ses_id[e.slot] # e.ses_id
               THEN sent \cup {Reply(e.seq, e.slot, e.conn, 504)} ELSE sent
    /\ entries' = entries \ {e}
    /\ UNCHANGED <<fresh, freelist, open, ses_id, id_start, ses_count, conn,
                   nconn, state_id, backend, connected, refused>>

\* on_state_timeout: the entry expired (nw_state drops it after the
\* callback); answer 504 if the session memory still has the same id.
on_state_timeout(e) ==
    /\ e \in entries
    /\ sent' = IF ses_id[e.slot] = e.ses_id
               THEN sent \cup {Reply(e.seq, e.slot, e.conn, 504)} ELSE sent
    /\ entries' = entries \ {e}
    /\ UNCHANGED <<fresh, freelist, open, ses_id, id_start, ses_count, conn,
                   nconn, state_id, backend, connected, refused>>

\* Slip kept for mutation analysis, not used by Spec: the reply handler
\* without the session id check.
on_backend_recv_pkg_noCheck(q) ==
    /\ q \in backend
    /\ backend' = backend \ {q}
    /\ LET found == {e \in entries : e.seq = q} IN
       /\ sent' = sent \cup {Reply(e.seq, e.slot, e.conn, 200) : e \in found}
       /\ entries' = entries \ found
    /\ UNCHANGED <<fresh, freelist, open, ses_id, id_start, ses_count, conn,
                   nconn, state_id, connected, refused>>

\* Slip kept for mutation analysis, not used by Spec: the reply handler
\* without the nw_state_del.
on_backend_recv_pkg_keep(q) ==
    /\ q \in backend
    /\ backend' = backend \ {q}
    /\ sent' = sent \cup {Reply(e.seq, e.slot, e.conn, 200) :
                            e \in {e \in entries : e.seq = q /\ ses_id[e.slot] = e.ses_id}}
    /\ UNCHANGED <<fresh, freelist, open, ses_id, id_start, ses_count, conn,
                   nconn, entries, state_id, connected, refused>>

\* on_backend_recv_pkg: the backend answers sequence q.  If the entry is
\* still there, reply 200 when the session memory has the same id, and
\* delete the entry; a late answer finds nothing.
on_backend_recv_pkg(q) ==
    /\ q \in backend
    /\ backend' = backend \ {q}
    /\ LET found == {e \in entries : e.seq = q} IN
       /\ sent' = sent \cup {Reply(e.seq, e.slot, e.conn, 200) :
                               e \in {e \in found : ses_id[e.slot] = e.ses_id}}
       /\ entries' = entries \ found
    /\ UNCHANGED <<fresh, freelist, open, ses_id, id_start, ses_count, conn,
                   nconn, state_id, connected, refused>>

\* The backend connection comes up (nw_clt connect) or goes down; going
\* down loses every request the backend still owed.
BackendUp ==
    /\ ~connected
    /\ connected' = TRUE
    /\ UNCHANGED <<fresh, freelist, open, ses_id, id_start, ses_count, conn,
                   nconn, entries, state_id, backend, sent, refused>>
BackendDown ==
    /\ connected
    /\ connected' = FALSE
    /\ backend' = {}
    /\ UNCHANGED <<fresh, freelist, open, ses_id, id_start, ses_count, conn,
                   nconn, entries, state_id, sent, refused>>

Next ==
    \/ Accept
    \/ \E s \in Slots : Close(s) \/ HttpRequest(s)
    \/ \E e \in entries : on_state_timeout(e)
    \/ \E q \in backend : on_backend_recv_pkg(q)
    \/ BackendUp
    \/ BackendDown

\* Every nw_state entry has a timer that the event loop fires; nothing
\* obliges clients, the backend or the network.
Fairness == \A q \in 1 .. MaxStates :
                WF_vars(\E e \in entries : e.seq = q /\ on_state_timeout(e))

Spec == Init /\ [][Next]_vars /\ Fairness

-----------------------------------------------------------------------------
\* Every variable has its shape; the free list never holds a slot twice.
TypeOK ==
    /\ fresh \subseteq Slots /\ open \subseteq Slots
    /\ freelist \in Seq(Slots)
    /\ \A i, j \in 1 .. Len(freelist) : i # j => freelist[i] # freelist[j]
    /\ ses_id \in [Slots -> Nat] /\ conn \in [Slots -> 0 .. MaxAccepts]
    /\ id_start \in Nat /\ ses_count = Cardinality(open)
    /\ backend \subseteq 1 .. state_id /\ connected \in BOOLEAN
    /\ \A e \in entries : e.seq \in 1 .. state_id /\ e.slot \in Slots
    /\ refused \subseteq 1 .. nconn

\* A connection is open while some slot in the session list carries it.
ConnOpen(c) == \E s \in open : conn[s] = c

\* A backend answer or a timeout reaches the client that sent the request,
\* never the connection that took over its session memory: the session id
\* check in on_backend_recv_pkg and on_state_timeout, with ids that
\* nw_svr_add_ses never reuses, is what tells the two apart.
ReplyReachesRequester == \A r \in sent : r.to = r.for

\* A forwarded request is answered at most once: the timeout and the
\* backend's answer race, and whichever comes second must find no entry.
AtMostOneReply ==
    \A r1, r2 \in sent : r1.seq = r2.seq => r1 = r2

\* A reply is only written to a session that is still open.
ReplyOnlyToOpenSession == \A r \in sent : r.open

\* A forwarded request whose client stays connected is eventually
\* answered, by the backend or by the 504 of its timeout, even when the
\* backend connection drops the request.
RequestAnswered ==
    \A q \in 1 .. MaxStates, c \in 1 .. MaxAccepts :
        (\E e \in entries : e.seq = q /\ e.conn = c /\ ConnOpen(c))
            ~> ((\E r \in sent : r.seq = q) \/ ~ConnOpen(c))
=============================================================================
