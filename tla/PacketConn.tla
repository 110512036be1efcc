----------------------------- MODULE PacketConn -----------------------------
(***************************************************************************)
(* packetConn of transport/v2rayxhttp/conn.go with dialPacketUp: a         *)
(* download request, and one POST for each piece of what is written,       *)
(* numbered so that the server can put them in order.  A failed POST or    *)
(* download, or Close, becomes terminalErr (conn.err).  Close sets closed  *)
(* together with terminalErr, so closed needs no variable.                 *)
(* Each section under access is one step.                                  *)
(***************************************************************************)
EXTENDS ConnBase, Naturals

CONSTANTS
    Writers,   \* goroutines that call Write
    MaxSeq     \* bound: packets of the connection

ASSUME MaxSeqAssumption == MaxSeq \in Nat

VARIABLES
    seq,        \* the next sequence number
    up,         \* where each Write is
    my,         \* the number it has reserved
    delivered   \* packets the server has answered with 200

uploadVars == <<seq, up, my, delivered>>

allVars == <<pc, conn, seq, up, my, delivered>>

Init ==
    /\ conn = NewConn
    /\ pc = [p \in Procs |->
               IF p = "rt" THEN "trip" ELSE IF p = "rd" THEN "idle" ELSE "none"]
    /\ seq = 0 /\ delivered = {}
    /\ up = [w \in Writers |-> "idle"] /\ my = [w \in Writers |-> 0]

Failed == conn.err # "none"

-----------------------------------------------------------------------------
(* The download goroutine of dialPacketUp *)

RespondOK ==
    /\ Go("rt", "trip", "setup")
    /\ conn' = [conn EXCEPT !.body = "open"]

RoundTripFails == Go("rt", "trip", "fail") /\ UNCHANGED conn

SetupReader ==
    LET late == conn.created \/ Failed IN
    /\ Go("rt", "setup", IF late THEN "late" ELSE "check")
    /\ conn' = [conn EXCEPT !.created = TRUE, !.reader = ~late]

SetupLate ==
    /\ Go("rt", "late", "done")
    /\ conn' = [conn EXCEPT !.body = BodyClosed]

SetupCheck ==
    /\ Go("rt", "check", "done")
    /\ conn' = [conn EXCEPT !.body = IF conn.expired THEN BodyClosed ELSE @]

\* The locked part of fail, on the download goroutine.
DownloadFails ==
    IF Failed
    THEN Go("rt", "fail", "done") /\ UNCHANGED conn
    ELSE /\ pc["rt"] = "fail"
         /\ pc' = [pc EXCEPT !["rt"] = "done", !["fail"] = "stop"]
         /\ \E e \in Causes : conn' = [conn EXCEPT !.err = e, !.created = TRUE]

Request ==
    RespondOK \/ RoundTripFails \/ SetupReader \/ SetupLate \/ SetupCheck
      \/ DownloadFails

-----------------------------------------------------------------------------
(* The rest of fail, on the goroutine that failed first *)

FailStop ==
    /\ Go("fail", "stop", "cancel")
    /\ conn' = [conn EXCEPT !.armed = FALSE]

FailCancel ==
    /\ Go("fail", "cancel", "body")
    /\ conn' = [conn EXCEPT !.cancelled = TRUE]

FailBody ==
    /\ Go("fail", "body", "release")
    /\ conn' = [conn EXCEPT !.body = IF conn.reader THEN BodyClosed ELSE @]

FailRelease ==
    /\ Go("fail", "release", "done")
    /\ conn' = [conn EXCEPT !.released = TRUE]

Cleanup == FailStop \/ FailCancel \/ FailBody \/ FailRelease

-----------------------------------------------------------------------------
\* The rest of the expiry callback of newPacketConn.
ExpireClose ==
    /\ Go("timer", "act", "done")
    /\ conn' = [conn EXCEPT !.body = IF conn.reader THEN BodyClosed ELSE @]

Deadlines == SetRead \/ ClearRead \/ ReadExpires \/ ExpireStore \/ ExpireClose

-----------------------------------------------------------------------------
(* Read *)

ReadWait ==
    /\ conn.created \/ conn.expired
    /\ Go("rd", "wait", IF conn.created THEN "check" ELSE "idle")
    /\ UNCHANGED conn

ReadCheck ==
    /\ Go("rd", "check", IF Failed \/ conn.expired THEN "idle" ELSE "body")
    /\ UNCHANGED conn

ReadBody == BodyRead("body", "seen")

ReadSeen ==
    /\ Go("rd", "seen", IF Failed THEN "idle" ELSE "note")
    /\ conn' = [conn EXCEPT !.result = IF Failed THEN "none" ELSE @]

ReadNote ==
    /\ Go("rd", "note", "idle")
    /\ IF conn.result # "ok" /\ conn.expired
       THEN conn' = [conn EXCEPT !.result = "none"]
       ELSE NoteRead(conn.result)

Read == ReadStart \/ ReadWait \/ ReadCheck \/ ReadBody \/ ReadSeen \/ ReadNote

-----------------------------------------------------------------------------
(* Close *)

CloseStart ==
    /\ Go("cl", "none", "lock")
    /\ conn' = [conn EXCEPT !.localClosed = TRUE]

\* Mutant: Close does not wake the Read that waits for the response.
CloseLockQuietly ==
    /\ Go("cl", "lock", "stop")
    /\ conn' = [conn EXCEPT !.err = IF Failed THEN @ ELSE "local"]

CloseLock ==
    /\ Go("cl", "lock", "stop")
    /\ conn' = [conn EXCEPT !.err = IF Failed THEN @ ELSE "local", !.created = TRUE]

CloseStop ==
    /\ Go("cl", "stop", "body")
    /\ conn' = [conn EXCEPT !.armed = FALSE]

CloseBody ==
    /\ Go("cl", "body", "cancel")
    /\ conn' = [conn EXCEPT !.body = IF conn.reader THEN BodyClosed ELSE @]

\* Mutant: the context is ended with the release, not before it.
CloseLateCancel == Go("cl", "cancel", "release") /\ UNCHANGED conn

CloseCancel ==
    /\ Go("cl", "cancel", "release")
    /\ conn' = [conn EXCEPT !.cancelled = TRUE]

CloseRelease ==
    /\ Go("cl", "release", "done")
    /\ conn' = [conn EXCEPT !.released = TRUE]

Close == CloseStart \/ CloseLock \/ CloseStop \/ CloseBody \/ CloseCancel \/ CloseRelease

-----------------------------------------------------------------------------
(* Write and sendPacket *)

At(w, from, to) == up[w] = from /\ up' = [up EXCEPT ![w] = to]

WriteBegins(w) ==
    /\ seq < MaxSeq                                     \* bound
    /\ ~Failed
    /\ At(w, "idle", "send")
    /\ UNCHANGED <<pc, conn, seq, my, delivered>>

\* The locked part of sendPacket; nextPostDelay (PostPacer) may ask for a wait.
Reserve(w) ==
    /\ IF Failed \/ seq = MaxSeq                        \* bound
       THEN At(w, "send", "idle") /\ UNCHANGED <<seq, my>>
       ELSE /\ \E to \in {"sleep", "post"} : At(w, "send", to)
            /\ my' = [my EXCEPT ![w] = seq]
            /\ seq' = seq + 1
    /\ UNCHANGED <<pc, conn, delivered>>

\* The wait ends, or the connection's context ends it and the packet is dropped.
SleepEnds(w) ==
    /\ \/ At(w, "sleep", "post")
       \/ conn.cancelled /\ At(w, "sleep", "idle")
    /\ UNCHANGED <<pc, conn, seq, my, delivered>>

\* RoundTrip sends nothing once the context has ended.
PostStarts(w) ==
    /\ At(w, "post", IF conn.cancelled THEN "fail" ELSE "trip")
    /\ UNCHANGED <<pc, conn, seq, my, delivered>>

\* The server answers 200: the Write goes on with its next piece, or returns.
PostOK(w) ==
    /\ \E to \in {"send", "idle"} : At(w, "trip", to)
    /\ delivered' = delivered \union {my[w]}
    /\ UNCHANGED <<pc, conn, seq, my>>

\* RoundTrip fails, by the timeout of the POST at the latest, or the status is
\* not 200.
PostFails(w) ==
    /\ At(w, "trip", "fail")
    /\ UNCHANGED <<pc, conn, seq, my, delivered>>

\* Mutant: a failed POST is only an error of this Write.
WriteReturnsError(w) ==
    /\ At(w, "fail", "idle")
    /\ UNCHANGED <<pc, conn, seq, my, delivered>>

\* The locked part of fail, on the goroutine of the Write.
WriteFail(w) ==
    /\ At(w, "fail", "idle")
    /\ IF Failed
       THEN UNCHANGED <<pc, conn>>
       ELSE /\ pc' = [pc EXCEPT !["fail"] = "stop"]
            /\ conn' = [conn EXCEPT !.err = "remote", !.created = TRUE]
    /\ UNCHANGED <<seq, my, delivered>>

Upload(w) ==
    WriteBegins(w) \/ Reserve(w) \/ SleepEnds(w) \/ PostStarts(w) \/ PostOK(w)
      \/ PostFails(w) \/ WriteFail(w)

-----------------------------------------------------------------------------
Download ==
    /\ Request \/ Cleanup \/ Shutdown \/ Deadlines \/ Read \/ Close
    /\ UNCHANGED uploadVars

Next == Download \/ (\E w \in Writers : Upload(w))

Spec == Init /\ [][Next]_allVars

-----------------------------------------------------------------------------
(* What cannot be held up for ever: goroutines go on, RoundTrip and Read     *)
(* return once the context has ended, and every POST ends by its own         *)
(* timeout.  Nothing makes the server answer, the caller call, or a deadline *)
(* pass.                                                                     *)

RequestGoesOn ==
    \/ conn.cancelled /\ RoundTripFails
    \/ SetupReader \/ SetupLate \/ SetupCheck \/ DownloadFails

TimerGoesOn == ExpireStore \/ ExpireClose

ReadGoesOn ==
    \/ (conn.cancelled \/ conn.body = "closed") /\ ReadBody
    \/ ReadWait \/ ReadCheck \/ ReadSeen \/ ReadNote

CloseGoesOn == CloseLock \/ CloseStop \/ CloseBody \/ CloseCancel \/ CloseRelease

UploadGoesOn(w) == Reserve(w) \/ SleepEnds(w) \/ PostStarts(w) \/ PostFails(w) \/ WriteFail(w)

Fairness ==
    /\ WF_allVars(RequestGoesOn /\ UNCHANGED uploadVars)
    /\ WF_allVars(Cleanup /\ UNCHANGED uploadVars)
    /\ WF_allVars(TimerGoesOn /\ UNCHANGED uploadVars)
    /\ WF_allVars(ReadGoesOn /\ UNCHANGED uploadVars)
    /\ WF_allVars(CloseGoesOn /\ UNCHANGED uploadVars)
    /\ \A w \in Writers : WF_allVars(UploadGoesOn(w))

FairSpec == Spec /\ Fairness

-----------------------------------------------------------------------------
(* Properties *)

H == INSTANCE XhttpHandle
     WITH cancelled <- conn.cancelled, released <- conn.released, body <- conn.body

\* The connection keeps the promise of XhttpHandle: fail and Close, which may
\* run side by side, end the context before either releases.
ImplementsHandle == H!HandleSpec

\* The server sees no gap in the sequence it could wait on for ever: a packet
\* that was numbered is delivered, on its way, or the connection has failed or is shut down.
NoSilentGap ==
    \A n \in 0..(seq - 1) :
      \/ n \in delivered
      \/ \E w \in Writers : up[w] \notin {"idle", "send"} /\ my[w] = n
      \/ Failed \/ pc["down"] = "done"

\* conn.go:848: the pooled connection is released only when no further upload
\* can start.
NoUploadAfterRelease ==
    [][\A w \in Writers : up[w] # "trip" /\ up'[w] = "trip" => ~conn.released]_allVars

\* README.md:74: "A read deadline that expires on an XHTTP connection ends that
\* connection".
ExpiryEndsConnection == conn.expired ~> conn.cancelled
=============================================================================
