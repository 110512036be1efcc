-------------------------- MODULE XhttpConnProofs ---------------------------
(***************************************************************************)
(* Proofs about XhttpConn, for any number of writers and packets: a        *)
(* connection of any mode keeps the promise of XhttpHandle, leaves nothing *)
(* open, reports no end of its own to the breaker, has no silent gap in    *)
(* its sequence and starts no upload after the release.  And about its     *)
(* Deadlines, for all times and any number of calls.                       *)
(***************************************************************************)
EXTENDS XhttpConn, Deadlines, TLAPS

\* The fields of a connection.
Fields ==
    {"created", "reader", "err", "body", "pipe", "cancelled", "released",
     "localClosed", "armed", "writeArmed", "expired", "result", "blamed", "missed"}

\* Those that are Boolean.
Flags == {"created", "reader", "cancelled", "released", "localClosed", "armed", "writeArmed",
          "expired", "blamed", "missed"}

\* What the proofs need to know of the types.
ConnTypes ==
    /\ DOMAIN pc = Procs /\ DOMAIN conn = Fields
    /\ conn.body \in {"none", "open", "closed"}
    /\ \A f \in Flags : conn[f] \in BOOLEAN

\* The one response body.  It is published (reader) at the end of setup, and from
\* then on whoever ends the connection sees it; a body that came too late is on its
\* way to be closed.  After the deadline, setup or the callback still has to look.
BodyInv ==
    /\ pc["rt"] \in {"trip", "fail", "failSetup", "failPipe", "failCancel", "failRelease"}
         => conn.body = "none"
    /\ pc["rt"] \in {"check", "done"} /\ conn.body = "open" => conn.reader
    /\ conn.reader => pc["rt"] \in {"check", "done"}
    /\ conn.created => conn.reader \/ conn.err # "none"
    /\ pc["rt"] = "late" => conn.err # "none"
    /\ conn.expired <=> pc["timer"] # "none"
    /\ pc["fail"] # "none" => conn.err # "none"
    /\ pc["fail"] \in {"release", "done"} /\ pc["rt"] \in {"check", "done"}
         => conn.body # "open"
    /\ pc["rt"] = "done" /\ conn.body = "open" /\ conn.expired
         => pc["timer"] # "done" \/ pc["fail"] # "none"

\* The end of a connection.  Its context ends before it is given back; a context that
\* has ended, a body that was closed and a Read that failed by it have a cause.
EndInv ==
    /\ conn.released => conn.cancelled
    /\ pc["fail"] \in {"body", "release", "done"} => conn.cancelled
    /\ pc["cl"] = "release" => conn.cancelled
    /\ conn.cancelled => \/ pc["guard"] = "cut" \/ pc["down"] = "done"
                         \/ conn.err # "none" \/ conn.localClosed
    /\ pc["cl"] # "none" => conn.localClosed
    /\ pc["timer"] \in {"act", "fail", "done"} => conn.localClosed
    /\ conn.body = "closed" => conn.expired \/ conn.localClosed \/ conn.err # "none"
    /\ conn.result = "local" => conn.cancelled \/ conn.body = "closed"

\* The part of the invariant that every connection type has.
ConnOK == ConnTypes /\ BodyInv /\ EndInv

\* streamConn: fail runs on the request goroutine, and a reader and an error exclude
\* each other; Close has closed the body or did not find it.
OneInv ==
    /\ pc["fail"] = "none"
    /\ pc["rt"] \in {"trip", "setup", "failSetup", "check", "done", "failPipe", "failCancel",
                     "failRelease"}
    /\ pc["rt"] \in {"trip", "setup", "check", "failSetup"} => conn.err = "none"
    /\ pc["rt"] \in {"failPipe", "failCancel", "failRelease"} => conn.err # "none"
    /\ pc["rt"] = "failRelease" => conn.cancelled
    /\ conn.reader => conn.err = "none"
    /\ pc["rd"] \in {"body", "note"} => conn.reader
    /\ conn.body = "closed" => conn.expired \/ conn.localClosed
    /\ conn.blamed => pc["guard"] = "cut" \/ pc["down"] = "done"
    /\ pc["cl"] \in {"cancel", "release", "done"}
         => conn.missed \/ (conn.reader /\ conn.body # "open")
    /\ pc["cl"] = "done" => conn.cancelled

\* splitConn: whoever sets terminalErr starts the one cleanup, and after it has stopped
\* the timers one is armed only by a SetDeadline that will look again.
UpInv ==
    /\ conn.err # "none" => pc["fail"] # "none"
    /\ pc["timer"] = "done" => conn.err # "none"
    /\ pc["cl"] = "done" => conn.err # "none"
    /\ pc["fail"] \notin {"none", "stop"} =>
         (conn.armed => pc["set"] = "read") /\ (conn.writeArmed => pc["set"] = "write")
    /\ conn.err = "local" => conn.localClosed \/ pc["guard"] = "cut"
    /\ conn.cancelled => pc["guard"] = "cut" \/ conn.err # "none"
    /\ conn.body = "closed" => conn.expired \/ conn.err # "none"
    /\ conn.blamed => pc["guard"] = "cut" \/ pc["down"] = "done" \/ conn.expired

\* packetConn: the cleanups of fail and of Close are of a connection that has failed,
\* a body they did not find is closed as it comes, and a Read that reports has looked for a failure after its error.
PackInv ==
    /\ pc["cl"] \notin {"none", "lock"} => Failed
    /\ pc["cl"] \in {"cancel", "release", "done"} /\ pc["rt"] \in {"check", "done"}
         => conn.body # "open"
    /\ conn.cancelled => Failed \/ pc["down"] = "done"
    /\ conn.body = "closed" => conn.expired \/ Failed
    /\ pc["rd"] = "note" /\ conn.result = "local" => conn.expired \/ pc["down"] = "done"
    /\ conn.blamed => pc["guard"] = "cut" \/ pc["down"] = "done" \/ conn.expired

\* Nothing is sent any more, or will soon be: this is never taken back.
Ended == Failed \/ pc["down"] = "done"

\* What a step may do to the handle that XhttpHandle describes.
HandleStep == [H!HandleNext]_H!handleVars

\* How a goroutine and a writer go on is always visible.
USE DEF Go, At, One!Go, Up!Go

\* Every step of streamConn keeps the invariant and the promise of XhttpHandle.
LEMMA OneStep == ASSUME ConnOK, OneInv, One!Next PROVE ConnOK' /\ OneInv' /\ HandleStep
<1> USE DEF ConnOK, ConnTypes, Procs, Fields, Flags, BodyInv, EndInv, OneInv,
       HandleStep, H!handleVars
<1>1. CASE One!RespondOK
  BY <1>1 DEF One!RespondOK, H!HandleNext, H!HandleOpen
<1>2. CASE One!RoundTripFails
  BY <1>2 DEF One!RoundTripFails
<1>3. CASE One!SetupReader
  BY <1>3 DEF One!SetupReader
<1>4. CASE One!SetupCheck
  BY <1>4 DEF One!SetupCheck, One!BodyClosed, H!HandleNext, H!HandleClose
<1>5. CASE One!FailSetup
  BY <1>5 DEF One!FailSetup, One!Causes
<1>6. CASE One!FailPipe
  BY <1>6 DEF One!FailPipe
<1>7. CASE One!FailCancel
  BY <1>7, Zenon DEF One!FailCancel, H!HandleNext, H!HandleCancel
<1>8. CASE One!FailRelease
  BY <1>8, Zenon DEF One!FailRelease, H!HandleNext, H!HandleRelease
<1>9. CASE One!GuardSelect
  BY <1>9 DEF One!GuardSelect
<1>10. CASE One!GuardPipe
  BY <1>10 DEF One!GuardPipe
<1>11. CASE One!GuardCancel
  BY <1>11, Zenon DEF One!GuardCancel, H!HandleNext, H!HandleCancel
<1>12. CASE One!Shutdown
  BY <1>12, Zenon DEF One!Shutdown, H!HandleNext, H!HandleCancel
<1>13. CASE One!SetRead
  BY <1>13 DEF One!SetRead
<1>14. CASE One!ClearRead
  BY <1>14 DEF One!ClearRead
<1>15. CASE One!SetWrite
  BY <1>15 DEF One!SetWrite
<1>16. CASE One!WriteExpires
  BY <1>16 DEF One!WriteExpires
<1>17. CASE One!ReadExpires
  BY <1>17 DEF One!ReadExpires
<1>18. CASE One!ExpireStore
  BY <1>18 DEF One!ExpireStore
<1>19. CASE One!ExpireClose
  BY <1>19 DEF One!ExpireClose, One!BodyClosed, H!HandleNext, H!HandleClose
<1>20. CASE One!ReadStart
  BY <1>20 DEF One!ReadStart
<1>21. CASE One!ReadWait
  BY <1>21 DEF One!ReadWait
<1>22. CASE One!ReadBody
  BY <1>22 DEF One!ReadBody, One!BodyRead
<1>23. CASE One!ReadNote
  <2> DEFINE blamed == conn.blamed \/ (conn.result = "local" /\ ~conn.localClosed)
  <2>1. /\ pc["rd"] = "note" /\ pc' = [pc EXCEPT !["rd"] = "idle"]
        /\ \/ conn' = [conn EXCEPT !.result = "none"]
           \/ /\ conn' = [conn EXCEPT !.blamed = blamed, !.result = "none"]
              /\ conn.result = "ok" \/ ~conn.expired
    BY <1>23, Zenon DEF One!ReadNote, One!NoteRead
  <2>2. CASE conn' = [conn EXCEPT !.result = "none"]
    BY <2>1, <2>2
  <2>3. CASE /\ conn' = [conn EXCEPT !.blamed = blamed, !.result = "none"]
             /\ conn.result = "ok" \/ ~conn.expired
    BY <2>1, <2>3
  <2> QED BY <2>1, <2>2, <2>3
<1>24. CASE One!WriteStart
  BY <1>24 DEF One!WriteStart
<1>25. CASE One!WriteTaken
  BY <1>25 DEF One!WriteTaken
<1>26. CASE One!WriteFails
  BY <1>26 DEF One!WriteFails
<1>27. CASE One!CloseStart
  BY <1>27 DEF One!CloseStart
<1>28. CASE One!CloseStop
  BY <1>28 DEF One!CloseStop
<1>29. CASE One!CloseBody
  BY <1>29 DEF One!CloseBody, One!BodyClosed, H!HandleNext, H!HandleClose
<1>30. CASE One!CloseCancel
  BY <1>30, Zenon DEF One!CloseCancel, H!HandleNext, H!HandleCancel
<1>31. CASE One!CloseRelease
  BY <1>31, Zenon DEF One!CloseRelease, H!HandleNext, H!HandleRelease
<1> QED BY <1>1, <1>2, <1>3, <1>4, <1>5, <1>6, <1>7, <1>8, <1>9, <1>10, <1>11, <1>12, <1>13,
           <1>14, <1>15, <1>16, <1>17, <1>18, <1>19, <1>20, <1>21, <1>22, <1>23, <1>24, <1>25,
           <1>26, <1>27, <1>28, <1>29, <1>30, <1>31, Zenon DEF One!Next, One!Request, One!Guard,
           One!Deadlines, One!Read, One!PipeWrite, One!Close

\* The locked part of fail, on whichever goroutine of splitConn.
LEMMA UpFails ==
    ASSUME ConnOK, UpInv, NEW p \in {"rt", "up", "timer", "cl"}, NEW e \in {"remote", "local"},
           e = "local" => conn.localClosed \/ conn.cancelled, Up!FailWith(p, e)
    PROVE  ConnOK' /\ UpInv' /\ HandleStep
<1> USE DEF ConnOK, ConnTypes, Procs, Fields, Flags, BodyInv, EndInv, UpInv, HandleStep,
       H!handleVars
<1>1. CASE conn.err # "none"
  <2>1. pc[p] = "fail" /\ pc' = [pc EXCEPT ![p] = "done"] /\ conn' = conn
    BY <1>1, Zenon DEF Up!FailWith
  <2> QED BY <1>1, <2>1
<1>2. CASE conn.err = "none"
  <2>1. /\ pc[p] = "fail" /\ pc' = [pc EXCEPT ![p] = "done", !["fail"] = "stop"]
        /\ conn' = [conn EXCEPT !.err = e, !.created = TRUE]
    BY <1>2, Zenon DEF Up!FailWith
  <2> QED BY <1>2, <2>1
<1> QED BY <1>1, <1>2

\* Every step of splitConn keeps them.
LEMMA UpStep == ASSUME ConnOK, UpInv, Up!Next PROVE ConnOK' /\ UpInv' /\ HandleStep
<1> USE DEF ConnOK, ConnTypes, Procs, Fields, Flags, BodyInv, EndInv, UpInv,
       HandleStep, H!handleVars
<1>1. CASE Up!RespondOK
  BY <1>1 DEF Up!RespondOK, H!HandleNext, H!HandleOpen
<1>2. CASE Up!UploadOK
  BY <1>2 DEF Up!UploadOK
<1>3. CASE Up!SetupReader
  BY <1>3, Zenon DEF Up!SetupReader
<1>4. CASE Up!SetupLate
  BY <1>4 DEF Up!SetupLate, Up!BodyClosed, H!HandleNext, H!HandleClose
<1>5. CASE Up!SetupCheck
  BY <1>5 DEF Up!SetupCheck, Up!BodyClosed, H!HandleNext, H!HandleClose
<1>6. CASE Up!RoundTripFails("rt")
  BY <1>6 DEF Up!RoundTripFails
<1>7. CASE Up!RoundTripFails("up")
  BY <1>7 DEF Up!RoundTripFails
<1>8. CASE Up!RequestFails("rt")
  BY <1>8, UpFails DEF Up!RequestFails, Up!Causes
<1>9. CASE Up!RequestFails("up")
  BY <1>9, UpFails DEF Up!RequestFails, Up!Causes
<1>10. CASE Up!FailStop
  BY <1>10 DEF Up!FailStop
<1>11. CASE Up!FailCancel
  BY <1>11, Zenon DEF Up!FailCancel, H!HandleNext, H!HandleCancel
<1>12. CASE Up!FailBody
  BY <1>12 DEF Up!FailBody, Up!BodyClosed, H!HandleNext, H!HandleClose
<1>13. CASE Up!FailRelease
  BY <1>13, Zenon DEF Up!FailRelease, H!HandleNext, H!HandleRelease
<1>14. CASE Up!GuardSelect
  BY <1>14 DEF Up!GuardSelect
<1>15. CASE Up!GuardPipe
  BY <1>15 DEF Up!GuardPipe
<1>16. CASE Up!GuardCancel
  BY <1>16, Zenon DEF Up!GuardCancel, H!HandleNext, H!HandleCancel
<1>17. CASE Up!SetReadDeadline
  BY <1>17 DEF Up!SetReadDeadline
<1>18. CASE Up!SetWriteDeadline
  BY <1>18 DEF Up!SetWriteDeadline
<1>19. CASE Up!SetCheck
  <2>1. CASE /\ Up!Go("set", "read", "idle")
             /\ conn' = [conn EXCEPT !.armed = @ /\ conn.err = "none"]
    BY <2>1
  <2>2. CASE /\ Up!Go("set", "write", "idle")
             /\ conn' = [conn EXCEPT !.writeArmed = @ /\ conn.err = "none"]
    BY <2>2
  <2> QED BY <1>19, <2>1, <2>2, Zenon DEF Up!SetCheck
<1>20. CASE Up!WriteExpires
  BY <1>20 DEF Up!WriteExpires
<1>21. CASE Up!ReadExpires
  BY <1>21 DEF Up!ReadExpires
<1>22. CASE Up!ExpireStoreFail
  BY <1>22 DEF Up!ExpireStoreFail
<1>23. CASE Up!ExpireFail
  BY <1>23, UpFails DEF Up!ExpireFail, Up!FailWith
<1>24. CASE Up!ReadStart
  BY <1>24 DEF Up!ReadStart
<1>25. CASE Up!ReadWait
  BY <1>25 DEF Up!ReadWait
<1>26. CASE Up!ReadBody
  BY <1>26 DEF Up!ReadBody, Up!BodyRead
<1>27. CASE Up!ReadNote
  BY <1>27 DEF Up!ReadNote, Up!NoteRead
<1>28. CASE Up!CloseStart
  BY <1>28 DEF Up!CloseStart
<1>29. CASE Up!CloseStop
  BY <1>29 DEF Up!CloseStop
<1>30. CASE Up!CloseFail
  BY <1>30, UpFails DEF Up!CloseFail, Up!FailWith
<1> QED BY <1>1, <1>2, <1>3, <1>4, <1>5, <1>6, <1>7, <1>8, <1>9, <1>10, <1>11, <1>12, <1>13,
           <1>14, <1>15, <1>16, <1>17, <1>18, <1>19, <1>20, <1>21, <1>22, <1>23, <1>24, <1>25,
           <1>26, <1>27, <1>28, <1>29, <1>30, Zenon DEF Up!Next, Up!Request, Up!Cleanup, Up!Guard,
           Up!Deadlines, Up!Read, Up!Close

\* Every step of the download side of packetConn keeps them, and does not bring an
\* ended connection back.
LEMMA DownStep ==
    ASSUME ConnOK, PackInv, Download
    PROVE  ConnOK' /\ PackInv' /\ HandleStep /\ (Ended => Ended')
<1> USE DEF ConnOK, ConnTypes, Procs, Fields, Flags, BodyInv, EndInv, PackInv, Failed, Ended,
       HandleStep, H!handleVars
<1>1. CASE RespondOK
  BY <1>1 DEF RespondOK, H!HandleNext, H!HandleOpen
<1>2. CASE RoundTripFails
  BY <1>2 DEF RoundTripFails
<1>3. CASE SetupReader
  BY <1>3, Zenon DEF SetupReader
<1>4. CASE SetupLate
  BY <1>4 DEF SetupLate, BodyClosed, H!HandleNext, H!HandleClose
<1>5. CASE SetupCheck
  BY <1>5 DEF SetupCheck, BodyClosed, H!HandleNext, H!HandleClose
<1>6. CASE DownloadFails
  <2>1. CASE Failed
    BY <1>6, <2>1 DEF DownloadFails
  <2>2. CASE ~Failed
    <3>1. PICK e \in {"remote", "local"} :
            /\ pc["rt"] = "fail" /\ pc' = [pc EXCEPT !["rt"] = "done", !["fail"] = "stop"]
            /\ conn' = [conn EXCEPT !.err = e, !.created = TRUE]
      BY <1>6, <2>2, Zenon DEF DownloadFails, Causes
    <3> QED BY <2>2, <3>1
  <2> QED BY <2>1, <2>2
<1>7. CASE FailStop
  BY <1>7 DEF FailStop
<1>8. CASE FailCancel
  BY <1>8, Zenon DEF FailCancel, H!HandleNext, H!HandleCancel
<1>9. CASE FailBody
  BY <1>9 DEF FailBody, BodyClosed, H!HandleNext, H!HandleClose
<1>10. CASE FailRelease
  BY <1>10, Zenon DEF FailRelease, H!HandleNext, H!HandleRelease
<1>11. CASE Shutdown
  BY <1>11, Zenon DEF Shutdown, H!HandleNext, H!HandleCancel
<1>12. CASE SetRead
  BY <1>12 DEF SetRead
<1>13. CASE ClearRead
  BY <1>13 DEF ClearRead
<1>14. CASE ReadExpires
  BY <1>14 DEF ReadExpires
<1>15. CASE ExpireStore
  BY <1>15 DEF ExpireStore
<1>16. CASE ExpireClose
  BY <1>16 DEF ExpireClose, BodyClosed, H!HandleNext, H!HandleClose
<1>17. CASE ReadStart
  BY <1>17 DEF ReadStart
<1>18. CASE ReadWait
  BY <1>18 DEF ReadWait
<1>19. CASE ReadCheck
  BY <1>19 DEF ReadCheck
<1>20. CASE ReadBody
  BY <1>20 DEF ReadBody, BodyRead
<1>21. CASE ReadSeen
  BY <1>21 DEF ReadSeen
<1>22. CASE ReadNote
  <2> DEFINE blamed == conn.blamed \/ (conn.result = "local" /\ ~conn.localClosed)
  <2>1. /\ pc["rd"] = "note" /\ pc' = [pc EXCEPT !["rd"] = "idle"]
        /\ \/ conn' = [conn EXCEPT !.result = "none"]
           \/ /\ conn' = [conn EXCEPT !.blamed = blamed, !.result = "none"]
              /\ conn.result = "ok" \/ ~conn.expired
    BY <1>22, Zenon DEF ReadNote, NoteRead
  <2>2. CASE conn' = [conn EXCEPT !.result = "none"]
    BY <2>1, <2>2
  <2>3. CASE /\ conn' = [conn EXCEPT !.blamed = blamed, !.result = "none"]
             /\ conn.result = "ok" \/ ~conn.expired
    BY <2>1, <2>3
  <2> QED BY <2>1, <2>2, <2>3
<1>23. CASE CloseStart
  BY <1>23 DEF CloseStart
<1>24. CASE CloseLock
  BY <1>24 DEF CloseLock
<1>25. CASE CloseStop
  BY <1>25 DEF CloseStop
<1>26. CASE CloseBody
  BY <1>26 DEF CloseBody, BodyClosed, H!HandleNext, H!HandleClose
<1>27. CASE CloseCancel
  BY <1>27, Zenon DEF CloseCancel, H!HandleNext, H!HandleCancel
<1>28. CASE CloseRelease
  BY <1>28, Zenon DEF CloseRelease, H!HandleNext, H!HandleRelease
<1> QED BY <1>1, <1>2, <1>3, <1>4, <1>5, <1>6, <1>7, <1>8, <1>9, <1>10, <1>11, <1>12, <1>13,
           <1>14, <1>15, <1>16, <1>17, <1>18, <1>19, <1>20, <1>21, <1>22, <1>23, <1>24, <1>25,
           <1>26, <1>27, <1>28, Zenon DEF Download, Request, Cleanup, Deadlines, Read, Close

-----------------------------------------------------------------------------
\* What the uploads need to know of the types.
Numbered == seq \in Nat /\ DOMAIN up = Writers /\ my \in [Writers -> Nat]

\* The inductive invariant of packetConn.
PInv == ConnOK /\ PackInv /\ Numbered /\ NoSilentGap

\* A step of a writer keeps them.
LEMMA UploadKeeps ==
    ASSUME NEW w \in Writers, ConnOK, PackInv, Numbered, Upload(w)
    PROVE  ConnOK' /\ PackInv' /\ Numbered' /\ HandleStep /\ (Ended => Ended')
<1> USE DEF ConnOK, ConnTypes, Procs, Fields, Flags, BodyInv, EndInv, PackInv, Failed, Ended,
            Numbered, HandleStep, H!handleVars
<1>1. CASE WriteFail(w) /\ Failed
  BY <1>1 DEF WriteFail
<1>2. CASE WriteFail(w) /\ ~Failed
  <2>1. /\ pc' = [pc EXCEPT !["fail"] = "stop"] /\ up' = [up EXCEPT ![w] = "idle"]
        /\ conn' = [conn EXCEPT !.err = "remote", !.created = TRUE] /\ UNCHANGED <<seq, my>>
    BY <1>2, Zenon DEF WriteFail
  <2>2. Numbered'
    BY <2>1
  <2>3. ConnOK' /\ PackInv' /\ HandleStep /\ (Ended => Ended')
    BY <1>2, <2>1
  <2> QED BY <2>2, <2>3
<1>3. CASE Reserve(w)
  BY <1>3 DEF Reserve
<1>4. CASE WriteBegins(w) \/ SleepEnds(w) \/ PostStarts(w) \/ PostOK(w) \/ PostFails(w)
  <2>1. UNCHANGED <<pc, conn, seq, my>> /\ DOMAIN up' = Writers
    BY <1>4 DEF WriteBegins, SleepEnds, PostStarts, PostOK, PostFails
  <2> QED BY <2>1
<1> QED BY <1>1, <1>2, <1>3, <1>4, Zenon DEF Upload

\* A step of a writer leaves no gap: it covers the number it takes until the packet
\* is delivered or the connection has ended.
LEMMA UploadGap ==
    ASSUME NEW w \in Writers, PInv, Upload(w)
    PROVE  NoSilentGap'
<1> USE DEF Numbered, PInv
<1> DEFINE Cover(n, v) == up[v] \notin {"idle", "send"} /\ my[v] = n
<1>0. Ended => Ended'
  BY UploadKeeps
<1> SUFFICES ASSUME NEW n \in 0..(seq' - 1), ~Ended'
             PROVE  n \in delivered' \/ \E v \in Writers : Cover(n, v)'
  BY DEF NoSilentGap, Ended, Failed
<1>1. n < seq => n \in delivered \/ \E v \in Writers : Cover(n, v)
  BY <1>0 DEF NoSilentGap, Ended
<1>2. \A v \in Writers \ {w} : Cover(n, v) => Cover(n, v)'
  BY DEF Upload, WriteBegins, Reserve, SleepEnds, PostStarts, PostOK, PostFails, WriteFail
<1>3. delivered \subseteq delivered'
  BY DEF Upload, WriteBegins, Reserve, SleepEnds, PostStarts, PostOK, PostFails, WriteFail
<1>4. ~conn.cancelled
  BY <1>0 DEF PackInv, Ended
<1>5. CASE Reserve(w)
  BY <1>5, <1>1, <1>2, <1>3 DEF Reserve
<1>6. CASE ~Reserve(w)
  <2>1. seq' = seq /\ my' = my
    BY <1>6 DEF Upload, WriteBegins, SleepEnds, PostStarts, PostOK, PostFails, WriteFail
  <2>2. Cover(n, w) => Cover(n, w)' \/ n \in delivered'
    <3>1. CASE WriteFail(w)
      BY ZenonT(60), <3>1 DEF WriteFail, Ended, Failed, ConnOK, ConnTypes, Fields, Procs
    <3>2. CASE ~WriteFail(w)
      BY <1>4, <1>6, <2>1, <3>2 DEF Upload, WriteBegins, SleepEnds, PostStarts, PostOK,
         PostFails
    <3> QED BY <3>1, <3>2
  <2> QED BY <1>1, <1>2, <1>3, <2>1, <2>2
<1> QED BY <1>5, <1>6

\* Every step of packetConn.
LEMMA PInvStep == PInv /\ [Next]_allVars => PInv' /\ HandleStep
<1> SUFFICES ASSUME PInv, [Next]_allVars PROVE PInv' /\ HandleStep
  OBVIOUS
<1>1. CASE Download
  <2>1. /\ ConnOK' /\ PackInv' /\ HandleStep /\ (Ended => Ended')
        /\ UNCHANGED <<seq, up, my, delivered>>
    BY <1>1, DownStep DEF PInv, Download, uploadVars
  <2>2. NoSilentGap'
    BY <2>1 DEF PInv, NoSilentGap, Ended, Failed
  <2> QED BY <2>1, <2>2 DEF PInv, Numbered
<1>2. ASSUME NEW w \in Writers, Upload(w) PROVE PInv' /\ HandleStep
  BY <1>2, UploadKeeps, UploadGap DEF PInv
<1>3. CASE UNCHANGED allVars
  BY <1>3 DEF allVars, PInv, ConnOK, ConnTypes, BodyInv, EndInv, PackInv, Numbered, NoSilentGap,
     Failed, HandleStep, H!handleVars
<1> QED BY <1>1, <1>2, <1>3 DEF Next

\* A new connection of any type satisfies its invariant.
LEMMA NewConnOK ==
    /\ One!Init => ConnOK /\ OneInv
    /\ Up!Init => ConnOK /\ UpInv
    /\ Init => PInv
<1> USE DEF ConnOK, ConnTypes, Procs, Fields, Flags, BodyInv, EndInv
<1>1. One!Init => ConnOK /\ OneInv
  BY DEF One!Init, One!NewConn, One!Procs, OneInv
<1>2. Up!Init => ConnOK /\ UpInv
  BY DEF Up!Init, Up!NewConn, Up!Procs, UpInv
<1>3. Init => ConnOK /\ PackInv
  BY DEF Init, NewConn, PackInv, Failed
<1>4. Init => Numbered /\ NoSilentGap
  BY DEF Init, Numbered, NoSilentGap
<1> QED BY <1>1, <1>2, <1>3, <1>4 DEF PInv

\* The inductive invariant of a connection of any mode.
ConnInv ==
    /\ mode \in {"stream-one", "stream-up", "packet-up"} /\ ConnOK
    /\ mode = "stream-one" => OneInv /\ NoUploads
    /\ mode = "stream-up" => UpInv /\ NoUploads
    /\ mode = "packet-up" => PInv

\* dialMode makes a connection that satisfies it.
LEMMA ConnInit == DialInit => ConnInv
  BY NewConnOK, ModesAssumption, Zenon DEF DialInit, ConnInv, PInv

\* Every step of a connection of any mode keeps it.
LEMMA ConnStep ==
    ASSUME ConnInv, [ConnNext]_connVars PROVE ConnInv' /\ HandleStep /\ UNCHANGED mode
<1>1. CASE mode = "stream-one" /\ One!Next /\ UNCHANGED <<uploadVars, mode>>
  <2>1. ConnOK' /\ OneInv' /\ HandleStep
    BY <1>1, OneStep DEF ConnInv
  <2> QED BY <1>1, <2>1 DEF ConnInv, NoUploads, uploadVars
<1>2. CASE mode = "stream-up" /\ Up!Next /\ UNCHANGED <<uploadVars, mode>>
  <2>1. ConnOK' /\ UpInv' /\ HandleStep
    BY <1>2, UpStep DEF ConnInv
  <2> QED BY <1>2, <2>1 DEF ConnInv, NoUploads, uploadVars
<1>3. CASE mode = "packet-up" /\ Next /\ UNCHANGED mode
  <2>1. PInv' /\ HandleStep
    BY <1>3, PInvStep DEF ConnInv
  <2> QED BY <1>3, <2>1 DEF ConnInv, PInv
<1>4. CASE UNCHANGED connVars
  <2>1. UNCHANGED <<pc, conn, seq, up, my, delivered, mode>>
    BY <1>4 DEF connVars, allVars
  <2> QED BY <2>1 DEF ConnInv, ConnOK, ConnTypes, BodyInv, EndInv, OneInv, UpInv, PackInv, PInv,
     Numbered, NoUploads, NoSilentGap, Failed, HandleStep, H!handleVars
<1> QED BY <1>1, <1>2, <1>3, <1>4 DEF ConnNext

\* A failure, the deadline and Close leave no body open, but for a response that comes
\* after Close of a stream-one connection, and on a stream-up connection no timer
\* (setupReader, the expiry callback, fail, Close and SetDeadline), in every order.
THEOREM EndLeavesNothingOpen == ConnSpec => []NothingLeftOpen
<1>1. ConnInv => NothingLeftOpen
  <2> SUFFICES ASSUME ConnInv PROVE NothingLeftOpen
    OBVIOUS
  <2> USE DEF ConnInv, ConnOK, BodyInv, NothingLeftOpen, HasEnded, CameAfterClose
  <2>1. CASE mode = "stream-one"
    BY <2>1 DEF OneInv
  <2>2. CASE mode = "stream-up"
    BY <2>2 DEF UpInv
  <2>3. CASE mode = "packet-up"
    BY <2>3 DEF PInv, PackInv, Failed
  <2> QED BY <2>1, <2>2, <2>3
<1> QED BY <1>1, ConnInit, ConnStep, PTL DEF ConnSpec

\* A Read that fails because of Close or of a failure leaves the breaker alone
\* (noteRead), in any mode; the context of the dial, the shutdown of the client and the
\* deadline of a connection with two requests are the exceptions.
THEOREM LocalEndsNotBlamed == ConnSpec => []LocalEndNotBlamed
<1>1. ConnInv => LocalEndNotBlamed
  BY DEF ConnInv, PInv, OneInv, UpInv, PackInv, LocalEndNotBlamed
<1> QED BY <1>1, ConnInit, ConnStep, PTL DEF ConnSpec

\* No number is skipped while a packet-up connection lives (sendPacket), for any
\* number of writers and packets.
THEOREM NoGap == Spec => []NoSilentGap
<1>1. PInv => NoSilentGap
  BY DEF PInv
<1> QED BY <1>1, NewConnOK, PInvStep, PTL DEF Spec

\* The same of the connection dialMode returns.
THEOREM ConnHasNoGap == ConnSpec => []NoSilentGap
<1>1. ConnInv => NoSilentGap
  BY DEF ConnInv, PInv, NoUploads, NoSilentGap
<1> QED BY <1>1, ConnInit, ConnStep, PTL DEF ConnSpec

\* A POST starts after the pooled connection was given back.
StartsUpload == \E w \in Writers : up[w] # "trip" /\ up'[w] = "trip" /\ conn.released

\* It never does: RoundTrip sends nothing once the context has ended.
LEMMA NoStart == ASSUME PInv, Next PROVE ~StartsUpload
<1> SUFFICES ASSUME NEW v \in Writers, up[v] # "trip", up'[v] = "trip"
             PROVE  ~conn.cancelled
  BY DEF PInv, ConnOK, EndInv, StartsUpload
<1>1. ~Download
  BY DEF Download, uploadVars
<1>2. PICK w \in Writers : Upload(w)
  BY <1>1 DEF Next
<1> QED BY <1>2 DEF PInv, Numbered, Upload, WriteBegins, Reserve, SleepEnds, PostStarts,
           PostOK, PostFails, WriteFail

\* No upload starts on a packet-up connection that was given back (conn.go:848).
THEOREM UploadsEndFirst == Spec => NoUploadAfterRelease
<1>1. PInv /\ [Next]_allVars => [~StartsUpload]_allVars
  BY NoStart
<1>2. ~StartsUpload <=> \A w \in Writers : up[w] # "trip" /\ up'[w] = "trip" => ~conn.released
  BY DEF StartsUpload
<1> QED BY <1>1, <1>2, NewConnOK, PInvStep, PTL DEF Spec, NoUploadAfterRelease

\* The same of the connection dialMode returns.
THEOREM ConnUploadsEndFirst == ConnSpec => NoUploadAfterRelease
<1>1. ConnInv /\ [ConnNext]_connVars => [~StartsUpload]_allVars
  BY NoStart DEF ConnInv, ConnNext, connVars, allVars, uploadVars, StartsUpload
<1>2. ~StartsUpload <=> \A w \in Writers : up[w] # "trip" /\ up'[w] = "trip" => ~conn.released
  BY DEF StartsUpload
<1> QED BY <1>1, <1>2, ConnInit, ConnStep, PTL DEF ConnSpec, NoUploadAfterRelease

\* A new connection is a new handle.
LEMMA NewHandle == (One!Init \/ Up!Init \/ Init) => H!HandleInit
  BY DEF One!Init, Up!Init, Init, One!NewConn, Up!NewConn, NewConn, H!HandleInit

\* A packet-up connection keeps the promise of XhttpHandle: the context ends before
\* the pooled connection is given back (fail, Close).
THEOREM PacketConnImplementsHandle == Spec => ImplementsHandle
  BY NewHandle, NewConnOK, PInvStep, PTL DEF Spec, ImplementsHandle, H!HandleSpec, HandleStep

\* So does a connection of any mode, fail and Close running side by side.
THEOREM ConnImplementsHandle == ConnSpec => ImplementsHandle
<1>1. DialInit => One!Init \/ Up!Init \/ Init
  BY ModesAssumption, Zenon DEF DialInit
<1> QED BY <1>1, NewHandle, ConnInit, ConnStep, PTL
        DEF ConnSpec, ImplementsHandle, H!HandleSpec, HandleStep

-----------------------------------------------------------------------------
(***************************************************************************)
(* Proofs about ReadDeadline: the callback runs at most once, and set,     *)
(* stop and expire implement Alarm, for all times and any number of calls. *)
(***************************************************************************)

\* A callback on its way carries a generation that was once current, and when
\* that is still the current one, the timer it belongs to is due.
StartedInv ==
    /\ \A g \in started : g <= generation
    /\ generation \in started => timer # 0 /\ timer <= now
    /\ timer # 0 => generation > 0
    /\ CallbackOnce

DInv == DeadlineTypeOK /\ StartedInv

\* A new deadline satisfies the invariant.
LEMMA DInvInit == DeadlineInit => DInv
<1> SUFFICES ASSUME DeadlineInit PROVE DInv
  OBVIOUS
<1>1. expired \in BOOLEAN /\ fired \in BOOLEAN
  BY Zenon DEF DeadlineInit
<1> QED BY <1>1 DEF DeadlineInit, DInv, DeadlineTypeOK, StartedInv, CallbackOnce

\* The two flags stay Booleans.
LEMMA FlagsStep == DeadlineTypeOK /\ [DeadlineNext]_deadlineVars => expired' \in BOOLEAN /\ fired' \in BOOLEAN
<1> SUFFICES ASSUME DeadlineTypeOK, [DeadlineNext]_deadlineVars
             PROVE  expired' \in BOOLEAN /\ fired' \in BOOLEAN
  OBVIOUS
<1>1. expired \in BOOLEAN /\ fired \in BOOLEAN
  BY DEF DeadlineTypeOK
<1> QED BY <1>1, Zenon DEF DeadlineNext, deadlineVars, Set, Stop, TimerFires, Expire, RunOnExpire, Tick,
           ExpireLocked

\* Every step of the deadline, its timer and its callbacks keeps the invariant.
LEMMA DInvStep == DInv /\ [DeadlineNext]_deadlineVars => DInv'
<1> SUFFICES ASSUME DInv, [DeadlineNext]_deadlineVars PROVE DInv'
  OBVIOUS
<1>0. expired' \in BOOLEAN /\ fired' \in BOOLEAN
  BY FlagsStep DEF DInv
<1> DEFINE Rest ==
      /\ now \in Nat /\ generation \in Nat /\ timer \in Nat
      /\ started \subseteq Nat /\ toRun \in Nat /\ ran \in Nat
      /\ StartedInv
<1> SUFFICES Rest'
  BY <1>0 DEF DInv, DeadlineTypeOK
<1> USE TimesAssumption DEF DInv, DeadlineTypeOK, StartedInv, CallbackOnce
<1>1. ASSUME NEW t \in Times, Set(t) PROVE Rest'
  <2>1. t \in Nat
    OBVIOUS
  <2>2. generation + 1 \notin started
    OBVIOUS
  <2> QED BY <1>1, <2>1, <2>2 DEF Set, ExpireLocked
<1>2. CASE Stop
  <2>1. generation + 1 \notin started
    OBVIOUS
  <2> QED BY <1>2, <2>1 DEF Stop
<1>3. CASE TimerFires
  BY <1>3 DEF TimerFires
<1>4. ASSUME NEW g \in started, Expire(g) PROVE Rest'
  BY <1>4 DEF Expire, ExpireLocked
<1>5. CASE RunOnExpire
  BY <1>5 DEF RunOnExpire
<1>6. CASE Tick
  BY <1>6 DEF Tick
<1>7. CASE UNCHANGED deadlineVars
  BY <1>7 DEF deadlineVars
<1> QED BY <1>1, <1>2, <1>3, <1>4, <1>5, <1>6, <1>7 DEF DeadlineNext

\* The expiry callback is called once for an expired deadline, and never for
\* one that is not (expireLocked).
THEOREM CallbackIsOnce == DeadlineSpec => []CallbackOnce
<1>1. DInv => CallbackOnce
  BY DEF DInv, StartedInv
<1> QED BY <1>1, DInvInit, DInvStep, PTL DEF DeadlineSpec

\* readDeadline implements Alarm: only the latest deadline takes effect, no
\* earlier than its time, and it is not taken back.
THEOREM ReadDeadlineImplementsAlarm == DeadlineSpec => ImplementsAlarm
<1>1. DeadlineInit => A!AlarmInit
  BY DEF DeadlineInit, A!AlarmInit
<1>2. DInv /\ [DeadlineNext]_deadlineVars => [A!AlarmNext]_A!alarmVars
  <2> SUFFICES ASSUME DInv, [DeadlineNext]_deadlineVars PROVE [A!AlarmNext]_A!alarmVars
    OBVIOUS
  <2> USE TimesAssumption DEF DInv, DeadlineTypeOK, StartedInv, A!alarmVars
  <2>1. ASSUME NEW t \in Times, Set(t) PROVE A!AlarmSet(t)
    <3>1. t \in Nat
      OBVIOUS
    <3> QED BY ZenonT(60), <2>1, <3>1 DEF Set, ExpireLocked, A!AlarmSet
  <2>2. ASSUME Stop PROVE A!AlarmSet(0)
    BY <2>2 DEF Stop, A!AlarmSet
  <2>3. CASE TimerFires
    BY <2>3 DEF TimerFires
  <2>4. ASSUME NEW g \in started, Expire(g) PROVE A!AlarmExpire \/ UNCHANGED A!alarmVars
    BY ZenonT(60), <2>4 DEF Expire, ExpireLocked, A!AlarmExpire
  <2>5. CASE RunOnExpire
    BY <2>5 DEF RunOnExpire
  <2>6. ASSUME Tick PROVE A!AlarmTick
    BY <2>6 DEF Tick, A!AlarmTick
  <2>7. CASE UNCHANGED deadlineVars
    BY <2>7 DEF deadlineVars
  <2> QED BY ZenonT(60), <2>1, <2>2, <2>3, <2>4, <2>5, <2>6, <2>7 DEF DeadlineNext, A!AlarmNext
<1> QED
  BY <1>1, <1>2, DInvInit, DInvStep, PTL DEF DeadlineSpec, ImplementsAlarm, A!AlarmSpec

-----------------------------------------------------------------------------
(***************************************************************************)
(* Proofs about WriteDeadline, and about the two deadlines of a connection *)
(* under one clock (Deadlines).                                            *)
(***************************************************************************)

\* The same of the callbacks of the write deadline.
WInv ==
    /\ now \in Nat /\ generationW \in Nat /\ timerW \in Nat /\ startedW \subseteq Nat
    /\ expiredW \in BOOLEAN
    /\ \A g \in startedW : g <= generationW
    /\ generationW \in startedW => timerW # 0 /\ timerW <= now

\* What a step may do to the alarm that the write deadline is.
WriteStep == [W!A!AlarmNext]_W!A!alarmVars

\* Setting the write deadline, by itself or as the second half of SetDeadline.
LEMMA WriteSet ==
    ASSUME WInv, NEW t \in Times, W!Set(t) PROVE WInv' /\ W!A!AlarmSet(t)
<1>1. /\ t \in Nat /\ now' = now /\ startedW' = startedW /\ generationW' = generationW + 1
      /\ timerW' = (IF t <= now THEN 0 ELSE t)
      /\ expiredW' = (expiredW \/ (t # 0 /\ t <= now))
  BY TimesAssumption DEF W!Set
<1>2. expiredW' \in BOOLEAN
  BY <1>1, Zenon
<1>3. generationW' \notin startedW'
  BY <1>1 DEF WInv
<1>4. WInv'
  BY <1>1, <1>2, <1>3 DEF WInv
<1>5. (IF expiredW' THEN 0 ELSE timerW') = IF t = 0 \/ expiredW' THEN 0 ELSE t
  <2>1. CASE expiredW'
    BY <2>1
  <2>2. CASE ~expiredW'
    <3>1. t = 0 \/ ~(t <= now)
      BY <1>1, <2>2, Zenon
    <3> QED BY <1>1, <2>2, <3>1 DEF WInv
  <2> QED BY <2>1, <2>2
<1> QED BY <1>1, <1>4, <1>5 DEF W!A!AlarmSet

\* The other steps of the write deadline.
LEMMA WriteOther ==
    ASSUME WInv, \/ W!Stop \/ W!TimerFires \/ \E g \in startedW : W!Expire(g)
    PROVE  WInv' /\ WriteStep
<1>1. CASE W!Stop
  <2>1. generationW + 1 \notin startedW
    BY DEF WInv
  <2>2. WInv'
    BY <1>1, <2>1 DEF WInv, W!Stop
  <2>3. W!A!AlarmSet(0)
    BY <1>1 DEF WInv, W!Stop, W!A!AlarmSet
  <2> QED BY <2>2, <2>3, TimesAssumption DEF WriteStep, W!A!AlarmNext
<1>2. CASE W!TimerFires
  <2>1. WInv'
    BY <1>2 DEF WInv, W!TimerFires
  <2>2. UNCHANGED W!A!alarmVars
    BY <1>2 DEF W!TimerFires, W!A!alarmVars
  <2> QED BY <2>1, <2>2 DEF WriteStep
<1>3. ASSUME NEW g \in startedW, W!Expire(g) PROVE WInv' /\ WriteStep
  <2>1. expiredW' \in BOOLEAN
    BY <1>3, Zenon DEF W!Expire
  <2>2. WInv'
    BY <1>3, <2>1 DEF WInv, W!Expire
  <2>3. CASE expiredW \/ g # generationW
    <3>1. expiredW' = expiredW
      BY <1>3, <2>3, Zenon DEF W!Expire, WInv
    <3> QED BY <1>3, <2>2, <3>1 DEF W!Expire, WriteStep, W!A!alarmVars
  <2>4. CASE ~expiredW /\ g = generationW
    <3>1. W!A!AlarmExpire
      BY <1>3, <2>4, Zenon DEF W!Expire, WInv, W!A!AlarmExpire
    <3> QED BY <2>2, <3>1 DEF WriteStep, W!A!AlarmNext
  <2> QED BY <2>3, <2>4
<1> QED BY <1>1, <1>2, <1>3

\* The write deadline satisfies its invariant at first.
LEMMA WInvInit == PairInit => WInv /\ W!A!AlarmInit
<1> SUFFICES ASSUME PairInit PROVE WInv /\ W!A!AlarmInit
  OBVIOUS
<1>1. expiredW \in BOOLEAN
  BY Zenon DEF PairInit, W!Init
<1> QED BY <1>1 DEF PairInit, W!Init, WInv, W!A!AlarmInit

PairInv == WInv /\ half \subseteq Times

\* A step of either deadline, and of SetDeadline, which sets both one after the
\* other, is a step of each of them or leaves it alone.
LEMMA PairStep ==
    PairInv /\ [PairNext]_pairVars => [DeadlineNext]_deadlineVars /\ PairInv' /\ WriteStep
<1> SUFFICES ASSUME half \subseteq Times, WInv, [PairNext]_pairVars
             PROVE  [DeadlineNext]_deadlineVars /\ WInv' /\ WriteStep /\ half' \subseteq Times
  BY DEF PairInv
<1>1. CASE ReadSide
  <2>1. now' = now \/ now' = now + 1
    BY <1>1 DEF ReadSide, DeadlineNext, Set, Stop, TimerFires, Expire, RunOnExpire, Tick
  <2>2. UNCHANGED <<generationW, timerW, firedW, startedW, expiredW, half>>
    BY <1>1 DEF ReadSide, writeVars
  <2>3. WInv'
    BY <2>1, <2>2 DEF WInv
  <2>4. WriteStep
    BY <2>1, <2>2 DEF WriteStep, W!A!AlarmNext, W!A!AlarmTick, W!A!alarmVars
  <2> QED BY <1>1, <2>2, <2>3, <2>4 DEF ReadSide
<1>2. CASE WriteSide
  <2>1. UNCHANGED <<deadlineVars, half>>
    BY <1>2 DEF WriteSide
  <2>2. WInv' /\ WriteStep
    BY <1>2, WriteSet, WriteOther DEF WriteSide, WriteStep, W!A!AlarmNext
  <2> QED BY <2>1, <2>2
<1>3. ASSUME NEW t \in Times, SetDeadline(t)
      PROVE  [DeadlineNext]_deadlineVars /\ WInv' /\ WriteStep /\ half' \subseteq Times
  <2>1. Set(t) /\ half' = {t} /\ UNCHANGED <<generationW, timerW, firedW, startedW, expiredW>>
    BY <1>3 DEF SetDeadline, writeVars
  <2>2. now' = now
    BY <2>1 DEF Set
  <2> QED BY <2>1, <2>2 DEF DeadlineNext, WInv, WriteStep, W!A!alarmVars
<1>4. ASSUME NEW t \in Times, SetDeadlineSecond(t)
      PROVE  [DeadlineNext]_deadlineVars /\ WInv' /\ WriteStep /\ half' \subseteq Times
  <2>1. W!Set(t) /\ half' = {} /\ UNCHANGED deadlineVars
    BY <1>4 DEF SetDeadlineSecond
  <2> QED BY <2>1, WriteSet DEF WriteStep, W!A!AlarmNext
<1>5. CASE UNCHANGED pairVars
  <2>1. UNCHANGED <<deadlineVars, now, generationW, timerW, firedW, startedW, expiredW, half>>
    BY <1>5 DEF pairVars, writeVars, deadlineVars
  <2> QED BY <2>1 DEF WInv, WriteStep, W!A!alarmVars
<1> QED BY <1>1, <1>2, <1>3, <1>4, <1>5 DEF PairNext

\* writeDeadline implements Alarm as well: a superseded or stopped write deadline
\* never breaks the upload pipe, though its callback may still run, whatever is set
\* on the read deadline.
THEOREM WriteDeadlineImplementsAlarm == PairSpec => W!A!AlarmSpec
<1>1. PairInit => PairInv
  BY WInvInit DEF PairInit, PairInv
<1> QED BY <1>1, WInvInit, PairStep, PTL DEF PairSpec, W!A!AlarmSpec, WriteStep

\* The read deadline keeps its promises beside the write deadline, also when
\* SetDeadline sets the two one after the other without a common lock.
THEOREM ReadDeadlineBesideWrite == PairSpec => []CallbackOnce /\ ImplementsAlarm
<1>1. PairInit => PairInv /\ DeadlineInit
  BY WInvInit DEF PairInit, PairInv
<1>2. PairSpec => DeadlineSpec
  BY <1>1, PairStep, PTL DEF PairSpec, DeadlineSpec
<1> QED BY <1>2, CallbackIsOnce, ReadDeadlineImplementsAlarm, PTL
=============================================================================
