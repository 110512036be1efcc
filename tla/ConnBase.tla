------------------------------ MODULE ConnBase ------------------------------
(***************************************************************************)
(* What the three XHTTP connection types of transport/v2rayxhttp/conn.go   *)
(* have in common: the guard of the dial's context, the deadlines, the     *)
(* upload pipe and the report of a Read to the breaker.                    *)
(*                                                                         *)
(* pc is the place of each goroutine: "rt" sends the (download) request,   *)
(* "up" the upload request, "guard" is watchDialContext, "timer" the       *)
(* expiry callback of the read deadline, "fail" the cleanup of fail, and   *)
(* "rd", "wr", "cl", "set" are the caller's Read, Write, Close and         *)
(* SetDeadline; "down" is the end of the client's own context.  conn holds *)
(* the fields of the connection.  Deadlines are those of Alarm without the *)
(* clock: one that is set may expire at any later time.                    *)
(***************************************************************************)
VARIABLES pc, conn

vars == <<pc, conn>>

Procs == {"rt", "up", "guard", "timer", "fail", "rd", "wr", "cl", "set", "down"}

\* created; reader # nil; the first error (readerErr, terminalErr) by who caused
\* it; the response body; the upload pipe; the connection's context; xmuxRelease;
\* connBreaker; the deadlines; what reader.Read returned.
NewConn ==
    [created |-> FALSE, reader |-> FALSE, err |-> "none", body |-> "none",
     pipe |-> "open", cancelled |-> FALSE, released |-> FALSE,
     localClosed |-> FALSE,
     armed |-> FALSE, writeArmed |-> FALSE, expired |-> FALSE, result |-> "none",
     blamed |-> FALSE,   \* the breaker was told of an error we caused
     missed |-> FALSE]   \* Close of a streamConn found no reader to close

\* Process p goes on from one place to the next.
Go(p, from, to) == pc[p] = from /\ pc' = [pc EXCEPT ![p] = to]

\* Who caused an error of RoundTrip: the peer, or we by ending the context.
Causes == {"remote"} \union IF conn.cancelled THEN {"local"} ELSE {}

BodyClosed == IF conn.body = "open" THEN "closed" ELSE conn.body

-----------------------------------------------------------------------------
(* watchDialContext *)

\* The dial's context ends, and the guard acts if it sees neither created nor
\* stop in the inner select; or created ends the guard.
GuardSelect ==
    /\ Go("guard", "watch", IF conn.created THEN "done" ELSE "pipe")
    /\ UNCHANGED conn

\* onCancel of dialStreamOne and dialStreamUp.
GuardPipe ==
    /\ Go("guard", "pipe", "cancel")
    /\ conn' = [conn EXCEPT !.pipe = "closed"]

GuardCancel ==
    /\ Go("guard", "cancel", "cut")
    /\ conn' = [conn EXCEPT !.cancelled = TRUE]

\* transportContext, the parent of the connection's context, ends when the
\* service is stopped.
Shutdown ==
    /\ Go("down", "none", "done")
    /\ conn' = [conn EXCEPT !.cancelled = TRUE]

Guard == GuardSelect \/ GuardPipe \/ GuardCancel

-----------------------------------------------------------------------------
(* Deadlines *)

\* readDeadline.set, unless it has expired, and readDeadline.stop.
SetRead ==
    /\ conn' = [conn EXCEPT !.armed = ~conn.expired]
    /\ UNCHANGED pc

ClearRead ==
    /\ conn' = [conn EXCEPT !.armed = FALSE]
    /\ UNCHANGED pc

SetWrite ==
    /\ \E w \in BOOLEAN : conn' = [conn EXCEPT !.writeArmed = w]
    /\ UNCHANGED pc

\* readDeadline.expireLocked; the callback follows on this goroutine.
ReadExpires ==
    /\ conn.armed
    /\ Go("timer", "none", "store")
    /\ conn' = [conn EXCEPT !.armed = FALSE, !.expired = TRUE]

\* The callback of every connection type begins with this.
ExpireStore ==
    /\ Go("timer", "store", "act")
    /\ conn' = [conn EXCEPT !.localClosed = TRUE]

\* writeDeadline closes the read half of the pipe.
WriteExpires ==
    /\ conn.writeArmed
    /\ conn' = [conn EXCEPT !.writeArmed = FALSE, !.pipe = "closed"]
    /\ UNCHANGED pc

-----------------------------------------------------------------------------
(* Read and Write *)

\* reader.Read: data or io.EOF ("ok"), or a broken stream, while the body is open;
\* an error of our own making once it was closed here or the context has ended.
BodyRead(from, to) ==
    /\ Go("rd", from, to)
    /\ \E r \in {"ok", "remote", "local"} :
         /\ r \in {"ok", "remote"} => conn.body = "open"
         /\ r = "local" => conn.body = "closed" \/ conn.cancelled
         /\ conn' = [conn EXCEPT !.result = r]

ReadStart ==
    /\ Go("rd", "idle", "wait")
    /\ UNCHANGED conn

\* connBreaker.noteRead; the report of a success is NoteSuccess of XmuxPool.
NoteRead(result) ==
    conn' = [conn EXCEPT !.blamed = @ \/ (result = "local" /\ ~conn.localClosed),
                         !.result = "none"]

WriteStart ==
    /\ Go("wr", "idle", "writing")
    /\ UNCHANGED conn

\* A Write to the pipe returns when the transport has read it all, or with the
\* error the pipe was closed with.
WriteTaken ==
    /\ conn.pipe = "open"
    /\ Go("wr", "writing", "idle")
    /\ UNCHANGED conn

WriteFails ==
    /\ conn.pipe = "closed"
    /\ Go("wr", "writing", "idle")
    /\ UNCHANGED conn

PipeWrite == WriteStart \/ WriteTaken \/ WriteFails
=============================================================================
