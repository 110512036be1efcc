----------------------------- MODULE XhttpHandle ----------------------------
(***************************************************************************)
(* What every XHTTP stream connection promises the connection pool and the *)
(* HTTP/2 transport: it ends its request context before it gives the       *)
(* pooled connection back, so that no request starts on a connection the   *)
(* stream is no longer counted on; and a response body, once closed, is    *)
(* not replaced by another.  A second call of release changes nothing here; *)
(* that it does not count twice is XmuxPool's part.                        *)
(***************************************************************************)
VARIABLES
    cancelled,  \* the request context has ended
    released,   \* the pooled connection was given back
    body        \* the download body: "none", "open" or "closed"

handleVars == <<cancelled, released, body>>

HandleInit == cancelled = FALSE /\ released = FALSE /\ body = "none"

HandleCancel == ~cancelled /\ cancelled' = TRUE /\ UNCHANGED <<released, body>>

HandleRelease == cancelled /\ ~released /\ released' = TRUE /\ UNCHANGED <<cancelled, body>>

HandleOpen == body = "none" /\ body' = "open" /\ UNCHANGED <<cancelled, released>>

HandleClose == body = "open" /\ body' = "closed" /\ UNCHANGED <<cancelled, released>>

HandleNext == HandleCancel \/ HandleRelease \/ HandleOpen \/ HandleClose

HandleSpec == HandleInit /\ [][HandleNext]_handleVars
=============================================================================
