----------------------------- MODULE SharedConn -----------------------------
(***************************************************************************)
(* What the DNS connection pool promises to the transports that use it     *)
(* (dns/transport/conn_pool.go, AcquireShared): there is one connection    *)
(* for all queries, one of them is told that it is new, a connection that  *)
(* is no longer shared never comes back, and the context that comes with   *)
(* it ends only then.                                                      *)
(***************************************************************************)
CONSTANTS Conns, NoConn

VARIABLES
    shared,    \* the connection of the pool
    claimed,   \* somebody was told that it is new
    used,      \* the connections the pool has had
    ended      \* those whose context has ended

poolVars == <<shared, claimed, used, ended>>

PoolInit == shared = NoConn /\ claimed = FALSE /\ used = {} /\ ended = {}

Connect(c) ==
    /\ shared = NoConn /\ c \notin used
    /\ shared' = c /\ claimed' = FALSE /\ used' = used \union {c}
    /\ UNCHANGED ended

HandOut ==
    /\ shared # NoConn
    /\ claimed' = TRUE
    /\ UNCHANGED <<shared, used, ended>>

\* The connection is removed and its context ends with it.
Remove(c) ==
    /\ shared = c
    /\ shared' = NoConn /\ claimed' = FALSE /\ ended' = ended \union {c}
    /\ UNCHANGED used

\* Reset and Close take the connection away; its context ends a little later.
Replace ==
    /\ shared' = NoConn /\ claimed' = FALSE
    /\ UNCHANGED <<used, ended>>

EndReplaced(c) ==
    /\ c \in used /\ c # shared
    /\ ended' = ended \union {c}
    /\ UNCHANGED <<shared, claimed, used>>

PoolNext ==
    \/ \E c \in Conns : Connect(c) \/ Remove(c) \/ EndReplaced(c)
    \/ HandOut \/ Replace

PoolSpec == PoolInit /\ [][PoolNext]_poolVars

\* The context of a connection that was taken away does end.
ReplacedEnds == \A c \in Conns : c \in used /\ c # shared ~> c \in ended
=============================================================================
