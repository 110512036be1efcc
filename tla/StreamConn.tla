----------------------------- MODULE StreamConn -----------------------------
(***************************************************************************)
(* streamConn of transport/v2rayxhttp/conn.go with dialStreamOne: one      *)
(* request whose body is a pipe and whose response body is the download.   *)
(* The connection is returned to its caller before the response arrives.   *)
(***************************************************************************)
EXTENDS ConnBase

Init ==
    /\ conn = NewConn
    /\ pc = [p \in Procs |->
               CASE p = "rt" -> "trip" [] p = "guard" -> "watch"
                 [] p \in {"rd", "wr"} -> "idle" [] OTHER -> "none"]

-----------------------------------------------------------------------------
(* The request goroutine of dialStreamOne *)

\* The response may still come through while the context is being ended.
RespondOK ==
    /\ Go("rt", "trip", "setup")
    /\ conn' = [conn EXCEPT !.body = "open"]

\* RoundTrip fails, or the status is not 200 and the body is closed at once.
RoundTripFails == Go("rt", "trip", "failSetup") /\ UNCHANGED conn

\* setupReader publishes the body by closing created, then looks at the
\* deadline.
SetupReader ==
    /\ Go("rt", "setup", "check")
    /\ conn' = [conn EXCEPT !.created = TRUE, !.reader = TRUE]

SetupCheck ==
    /\ Go("rt", "check", "done")
    /\ conn' = [conn EXCEPT !.body = IF conn.expired THEN BodyClosed ELSE @]

\* fail: setupReader(nil, err), the pipe, the context, the release.
FailSetup ==
    /\ Go("rt", "failSetup", "failPipe")
    /\ \E e \in Causes : conn' = [conn EXCEPT !.created = TRUE, !.err = e]

FailPipe ==
    /\ Go("rt", "failPipe", "failCancel")
    /\ conn' = [conn EXCEPT !.pipe = "closed"]

\* Mutant: fail does not end the request's context.
FailNoCancel == Go("rt", "failCancel", "failRelease") /\ UNCHANGED conn

FailCancel ==
    /\ Go("rt", "failCancel", "failRelease")
    /\ conn' = [conn EXCEPT !.cancelled = TRUE]

\* Mutant: fail leaves the release to a Close that may never come.
FailNoRelease == Go("rt", "failRelease", "done") /\ UNCHANGED conn

FailRelease ==
    /\ Go("rt", "failRelease", "done")
    /\ conn' = [conn EXCEPT !.released = TRUE]

Request ==
    RespondOK \/ RoundTripFails \/ SetupReader \/ SetupCheck
      \/ FailSetup \/ FailPipe \/ FailCancel \/ FailRelease

-----------------------------------------------------------------------------
\* The rest of the expiry callback of newStreamConn.
ExpireClose ==
    /\ Go("timer", "act", "done")
    /\ conn' = [conn EXCEPT !.body = IF conn.reader THEN BodyClosed ELSE @]

Deadlines ==
    SetRead \/ ClearRead \/ SetWrite \/ WriteExpires \/ ReadExpires
      \/ ExpireStore \/ ExpireClose

-----------------------------------------------------------------------------
(* Read *)

\* The select on created and dead, then readerErr and the deadline: Read
\* returns an error or goes on to the body.  None of these is ever taken back, so
\* that the looks at them are one step.
ReadWait ==
    /\ conn.created \/ conn.expired
    /\ Go("rd", "wait", IF conn.err # "none" \/ conn.expired THEN "idle" ELSE "body")
    /\ UNCHANGED conn

ReadBody == BodyRead("body", "note")

\* Mutant: errors after the deadline are reported like any other.
ReadNoteAlways == Go("rd", "note", "idle") /\ NoteRead(conn.result)

ReadNote ==
    /\ Go("rd", "note", "idle")
    /\ IF conn.result # "ok" /\ conn.expired
       THEN conn' = [conn EXCEPT !.result = "none"]
       ELSE NoteRead(conn.result)

Read == ReadStart \/ ReadWait \/ ReadBody \/ ReadNote

-----------------------------------------------------------------------------
(* Close *)

CloseStart ==
    /\ Go("cl", "none", "stop")
    /\ conn' = [conn EXCEPT !.localClosed = TRUE]

CloseStop ==
    /\ Go("cl", "stop", "body")
    /\ conn' = [conn EXCEPT !.armed = FALSE, !.writeArmed = FALSE, !.pipe = "closed"]

\* Mutant: Close leaves the response body open.
CloseKeepsBody ==
    /\ Go("cl", "body", "cancel")
    /\ conn' = [conn EXCEPT !.missed = ~conn.reader]

\* The reader is closed if there is one; nothing stops a setupReader that comes later.
CloseBody ==
    /\ Go("cl", "body", "cancel")
    /\ conn' = [conn EXCEPT !.body = IF conn.reader THEN BodyClosed ELSE @,
                            !.missed = ~conn.reader]

CloseCancel ==
    /\ Go("cl", "cancel", "release")
    /\ conn' = [conn EXCEPT !.cancelled = TRUE]

CloseRelease ==
    /\ Go("cl", "release", "done")
    /\ conn' = [conn EXCEPT !.released = TRUE]

Close == CloseStart \/ CloseStop \/ CloseBody \/ CloseCancel \/ CloseRelease

-----------------------------------------------------------------------------
Next == Request \/ Guard \/ Shutdown \/ Deadlines \/ Read \/ PipeWrite \/ Close

Spec == Init /\ [][Next]_vars

-----------------------------------------------------------------------------
(* What cannot be held up for ever: goroutines go on, RoundTrip and Read     *)
(* return once the context has ended, and a Write returns once its pipe is   *)
(* closed.  Nothing makes the server answer or take bytes, the caller call,  *)
(* or a deadline pass.                                                       *)

RequestGoesOn ==
    \/ conn.cancelled /\ RoundTripFails
    \/ SetupReader \/ SetupCheck \/ FailSetup \/ FailPipe \/ FailCancel \/ FailRelease

TimerGoesOn == ExpireStore \/ ExpireClose

ReadGoesOn ==
    \/ (conn.cancelled \/ conn.body = "closed") /\ ReadBody
    \/ ReadWait \/ ReadNote

CloseGoesOn == CloseStop \/ CloseBody \/ CloseCancel \/ CloseRelease
=============================================================================
