------------------------------ MODULE SplitConn -----------------------------
(***************************************************************************)
(* splitConn of transport/v2rayxhttp/conn.go with dialStreamUp: a download *)
(* request and an upload request whose body is a pipe.  The first failure, *)
(* of either request, of the deadline or of Close, becomes terminalErr     *)
(* (conn.err) and its goroutine cleans up ("fail"); later ones do nothing. *)
(* Write is that of StreamConn and not repeated here, and so is the end of *)
(* the client's own context.                                               *)
(* Each section under stateMu is one step.                                 *)
(***************************************************************************)
EXTENDS ConnBase

Init ==
    /\ conn = NewConn
    /\ pc = [p \in Procs |->
               CASE p \in {"rt", "up"} -> "trip" [] p = "guard" -> "watch"
                 [] p \in {"rd", "set"} -> "idle" [] OTHER -> "none"]

\* The locked part of fail: process p, at "fail", brings the error e.  The
\* winner goes on to the cleanup, which closes the reader it saw.
FailWith(p, e) ==
    IF conn.err # "none"
    THEN Go(p, "fail", "done") /\ UNCHANGED conn
    ELSE /\ pc[p] = "fail"
         /\ pc' = [pc EXCEPT ![p] = "done", !["fail"] = "stop"]
         /\ conn' = [conn EXCEPT !.err = e, !.created = TRUE]

-----------------------------------------------------------------------------
(* The request goroutines of dialStreamUp *)

RespondOK ==
    /\ Go("rt", "trip", "setup")
    /\ conn' = [conn EXCEPT !.body = "open"]

UploadOK == Go("up", "trip", "done") /\ UNCHANGED conn

RoundTripFails(p) == Go(p, "trip", "fail") /\ UNCHANGED conn

RequestFails(p) == \E e \in Causes : FailWith(p, e)

\* Mutant: a body that arrives after the failure is forgotten.
SetupReaderLate ==
    LET late == conn.created \/ conn.err # "none" IN
    /\ Go("rt", "setup", IF late THEN "done" ELSE "check")
    /\ conn' = [conn EXCEPT !.created = TRUE, !.reader = ~late]

\* setupReader: the body is published, or closed when it came too late.
SetupReader ==
    LET late == conn.created \/ conn.err # "none" IN
    /\ Go("rt", "setup", IF late THEN "late" ELSE "check")
    /\ conn' = [conn EXCEPT !.created = TRUE, !.reader = ~late]

SetupLate ==
    /\ Go("rt", "late", "done")
    /\ conn' = [conn EXCEPT !.body = BodyClosed]

SetupCheck ==
    /\ Go("rt", "check", "done")
    /\ conn' = [conn EXCEPT !.body = IF conn.expired THEN BodyClosed ELSE @]

Request ==
    RespondOK \/ UploadOK \/ SetupReader \/ SetupLate \/ SetupCheck
      \/ (\E p \in {"rt", "up"} : RoundTripFails(p) \/ RequestFails(p))

-----------------------------------------------------------------------------
(* The rest of fail, on the goroutine that failed first *)

\* Mutant: the pipe stays open for a Write that waits on it.
FailStopTimersOnly ==
    /\ Go("fail", "stop", "cancel")
    /\ conn' = [conn EXCEPT !.armed = FALSE, !.writeArmed = FALSE]

FailStop ==
    /\ Go("fail", "stop", "cancel")
    /\ conn' = [conn EXCEPT !.armed = FALSE, !.writeArmed = FALSE, !.pipe = "closed"]

FailCancel ==
    /\ Go("fail", "cancel", "body")
    /\ conn' = [conn EXCEPT !.cancelled = TRUE]

FailBody ==
    /\ Go("fail", "body", "release")
    /\ conn' = [conn EXCEPT !.body = IF conn.reader THEN BodyClosed ELSE @]

FailRelease ==
    /\ Go("fail", "release", "done")
    /\ conn' = [conn EXCEPT !.released = TRUE]

Cleanup == FailStop \/ FailCancel \/ FailBody \/ FailRelease

-----------------------------------------------------------------------------
(* Deadlines.  SetReadDeadline and SetWriteDeadline look at terminalErr after  *)
(* they have set the timer, and stop it again.                                 *)

SetReadDeadline ==
    /\ Go("set", "idle", "read")
    /\ \E on \in BOOLEAN : conn' = [conn EXCEPT !.armed = on /\ ~conn.expired]

SetWriteDeadline ==
    /\ Go("set", "idle", "write")
    /\ \E on \in BOOLEAN : conn' = [conn EXCEPT !.writeArmed = on]

\* Mutant: the deadline is left as it was set.
SetCheckForgotten ==
    /\ \E w \in {"read", "write"} : Go("set", w, "idle")
    /\ UNCHANGED conn

\* terminalErr stays once it is set, so that the look at it and the stop that
\* follows are one step.
SetCheck ==
    \/ /\ Go("set", "read", "idle")
       /\ conn' = [conn EXCEPT !.armed = @ /\ conn.err = "none"]
    \/ /\ Go("set", "write", "idle")
       /\ conn' = [conn EXCEPT !.writeArmed = @ /\ conn.err = "none"]

\* The expiry callback of newSplitConn calls fail.
ExpireStoreFail ==
    /\ Go("timer", "store", "fail")
    /\ conn' = [conn EXCEPT !.localClosed = TRUE]

ExpireFail == FailWith("timer", "local")

Deadlines ==
    SetReadDeadline \/ SetWriteDeadline \/ SetCheck \/ WriteExpires
      \/ ReadExpires \/ ExpireStoreFail \/ ExpireFail

-----------------------------------------------------------------------------
(* Read *)

\* The select takes either channel when both are closed; dead ends the Read, and
\* so does terminalErr.  created stays closed, so that the look at terminalErr
\* that follows is part of the step.
ReadWait ==
    /\ \/ conn.created /\ Go("rd", "wait", IF conn.err # "none" THEN "idle" ELSE "body")
       \/ conn.expired /\ Go("rd", "wait", "idle")
    /\ UNCHANGED conn

ReadBody == BodyRead("body", "note")

\* terminalErr, if there is one by now, takes the place of the result.  The code
\* reads it before localClosed; both only ever turn from unset to set, and
\* localClosed first, so that one step stands for the two.
ReadNote ==
    /\ Go("rd", "note", "idle")
    /\ NoteRead(IF conn.err # "none" THEN conn.err ELSE conn.result)

Read == ReadStart \/ ReadWait \/ ReadBody \/ ReadNote

-----------------------------------------------------------------------------
(* Close *)

CloseStart ==
    /\ Go("cl", "none", "stop")
    /\ conn' = [conn EXCEPT !.localClosed = TRUE]

CloseStop ==
    /\ Go("cl", "stop", "fail")
    /\ conn' = [conn EXCEPT !.armed = FALSE, !.writeArmed = FALSE, !.pipe = "closed"]

CloseFail == FailWith("cl", "local")

Close == CloseStart \/ CloseStop \/ CloseFail

-----------------------------------------------------------------------------
Next == Request \/ Cleanup \/ Guard \/ Deadlines \/ Read \/ Close

Spec == Init /\ [][Next]_vars

-----------------------------------------------------------------------------
(* What cannot be held up for ever: goroutines go on, RoundTrip and Read     *)
(* return once the context has ended.  Nothing makes the server answer, the  *)
(* caller call, or a deadline pass.                                          *)

RequestGoesOn ==
    \/ conn.cancelled /\ RoundTripFails("rt")
    \/ SetupReader \/ SetupLate \/ SetupCheck \/ RequestFails("rt")

UploadGoesOn == (conn.cancelled /\ RoundTripFails("up")) \/ RequestFails("up")

TimerGoesOn == ExpireStoreFail \/ ExpireFail

SetGoesOn == SetCheck

ReadGoesOn ==
    \/ (conn.cancelled \/ conn.body = "closed") /\ ReadBody
    \/ ReadWait \/ ReadNote

CloseGoesOn == CloseStop \/ CloseFail
=============================================================================
