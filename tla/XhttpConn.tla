------------------------------ MODULE XhttpConn ------------------------------
(***************************************************************************)
(* A connection of the XHTTP client, as its caller sees it: dialMode of    *)
(* transport/v2rayxhttp/client.go makes a streamConn, a splitConn or a     *)
(* packetConn, and what the net.Conn promises is the same for all three.   *)
(***************************************************************************)
EXTENDS PacketConn

CONSTANT Modes    \* the modes that are configured

ASSUME ModesAssumption == Modes \subseteq {"stream-one", "stream-up", "packet-up"}

VARIABLE mode

connVars == <<allVars, mode>>

One == INSTANCE StreamConn

Up == INSTANCE SplitConn

NoUploads ==
    /\ seq = 0 /\ delivered = {}
    /\ up = [w \in Writers |-> "idle"] /\ my = [w \in Writers |-> 0]

\* dialMode; modeAuto is one of the others.
DialInit ==
    /\ mode \in Modes
    /\ CASE mode = "stream-one" -> One!Init /\ NoUploads
         [] mode = "stream-up"  -> Up!Init /\ NoUploads
         [] mode = "packet-up"  -> Init

ConnNext ==
    /\ \/ mode = "stream-one" /\ One!Next /\ UNCHANGED uploadVars
       \/ mode = "stream-up" /\ Up!Next /\ UNCHANGED uploadVars
       \/ mode = "packet-up" /\ Next
    /\ UNCHANGED mode

\* What a goroutine of each connection type does; types a goroutine is not part
\* of have others in its place.
ByMode(one, split, packet) ==
    /\ \/ mode = "stream-one" /\ one /\ UNCHANGED uploadVars
       \/ mode = "stream-up" /\ split /\ UNCHANGED uploadVars
       \/ mode = "packet-up" /\ packet
    /\ UNCHANGED mode

Quiet(action) == action /\ UNCHANGED uploadVars

GuardGoesOn == GuardPipe \/ GuardCancel

\* The fairness of the three connection types, goroutine by goroutine.
ConnFairness ==
    /\ WF_connVars(ByMode(One!RequestGoesOn, Up!RequestGoesOn, Quiet(RequestGoesOn)))
    /\ WF_connVars(ByMode(One!TimerGoesOn, Up!TimerGoesOn, Quiet(TimerGoesOn)))
    /\ WF_connVars(ByMode(One!ReadGoesOn, Up!ReadGoesOn, Quiet(ReadGoesOn)))
    /\ WF_connVars(ByMode(One!CloseGoesOn, Up!CloseGoesOn, Quiet(CloseGoesOn)))
    /\ WF_connVars(ByMode(GuardGoesOn, GuardGoesOn, Quiet(Cleanup)))
    /\ \A w \in Writers : WF_connVars(ByMode(WriteFails, Up!SetGoesOn, UploadGoesOn(w)))
    /\ WF_connVars(mode = "stream-up" /\ Up!Cleanup /\ UNCHANGED <<uploadVars, mode>>)
    /\ WF_connVars(mode = "stream-up" /\ Up!UploadGoesOn /\ UNCHANGED <<uploadVars, mode>>)

ConnSpec == DialInit /\ [][ConnNext]_connVars /\ ConnFairness

-----------------------------------------------------------------------------
(* Properties; ImplementsHandle, NoSilentGap and NoUploadAfterRelease are those *)
(* of PacketConn                                                               *)

\* A failure is recorded, Close was called or, on a stream-up connection, the
\* read deadline has expired.
Ending ==
    conn.err # "none" \/ pc["cl"] # "none" \/ (mode = "stream-up" /\ conn.expired)

\* A Read returns once the connection was closed or has failed, its context has
\* ended or its deadline has expired, whatever else goes on.
ReadEnds ==
    pc["rd"] # "idle" /\ (Ending \/ conn.cancelled \/ conn.expired) ~> pc["rd"] = "idle"

\* A POST is under way, or the connection has ended and a Write would still wait.
WriteWaits(w) ==
    IF mode = "packet-up" THEN up[w] # "idle"
    ELSE /\ Ending \/ pc["guard"] = "cut"
         /\ conn.pipe = "open" \/ pc["wr"] = "writing"

\* A Write returns: every end that the connection knows of, the dial's context
\* included, closes the pipe a stream is written to, and conn.go:788 bounds each
\* POST of a packet-up connection though the server never answers.
WriteEnds == \A w \in Writers : WriteWaits(w) ~> ~WriteWaits(w)

\* The pooled connection is given back after any failure and after Close; a dial
\* that fails because its context ended gives it back though nobody may ever call
\* Close (conn.go:373), and so does the read deadline of a stream-up connection
\* (README.md:74).
EndReleases ==
    Ending \/ pc["guard"] = "pipe" ~> conn.released \/ (conn.reader /\ ~Ending)

\* A failure was recorded and cleaned up, the callback of the read deadline has run,
\* or Close has returned.
HasEnded ==
    \/ pc["fail"] = "done" \/ pc["timer"] = "done" \/ pc["cl"] = "done"
    \/ mode = "stream-one" /\ conn.err # "none"

\* The response came after Close of a stream-one connection had looked for it.
\* setupReader of a streamConn does not look for a Close (conn.go:412), as that of
\* the other types does: the body is left to the context, which has ended.
CameAfterClose ==
    mode = "stream-one" /\ conn.missed /\ conn.cancelled /\ pc["timer"] # "done"

\* After a failure, the read deadline or Close no response body stays open, whether
\* it was published before, while or after that happened: setupReader, the expiry
\* callback, fail and Close each look for what the others did; CameAfterClose is
\* the one exception.  (A context that ends by itself leaves the body to Close.)
\* On a stream-up connection no deadline timer stays either
\* (stream_up_security_test.go:128), also one set while the failure is cleaned up.
NothingLeftOpen ==
    /\ HasEnded /\ pc["rt"] = "done" /\ pc["fail"] \in {"none", "done"}
         => conn.body # "open" \/ CameAfterClose
    /\ mode = "stream-up" /\ pc["fail"] = "done" /\ pc["set"] = "idle"
         => ~conn.armed /\ ~conn.writeArmed

\* breaker_test.go:193 expects a Read that fails after a local end to leave the
\* breaker alone ("unchanged").  It does after Close and after a failure; a dial
\* context or a shutdown that cuts a stream is blamed on the connection, and so
\* can the deadline of a connection with two requests be: setupReader closes the
\* body, and Read sees it, before the expiry callback has stored localClosed.
LocalEndNotBlamed ==
    conn.blamed =>
      \/ pc["guard"] = "cut" \/ pc["down"] = "done"
      \/ mode # "stream-one" /\ conn.expired
=============================================================================
