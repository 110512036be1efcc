------------------------------ MODULE Deadlines ------------------------------
(***************************************************************************)
(* The two deadlines of an XHTTP connection, under one clock: ReadDeadline *)
(* and WriteDeadline, set one by one or, by SetDeadline, one after the     *)
(* other without a common lock.                                            *)
(***************************************************************************)
EXTENDS ReadDeadline

VARIABLES
    generationW, timerW, firedW, startedW, expiredW,  \* of the write deadline
    half        \* times SetDeadline has given to the read deadline only

writeVars == <<generationW, timerW, firedW, startedW, expiredW>>

pairVars == <<deadlineVars, writeVars, half>>

W == INSTANCE WriteDeadline
     WITH generation <- generationW, timer <- timerW, fired <- firedW,
          started <- startedW, expired <- expiredW

PairInit == DeadlineInit /\ W!Init /\ half = {}

\* SetDeadline sets the read deadline first ...
SetDeadline(t) == half = {} /\ Set(t) /\ half' = {t} /\ UNCHANGED writeVars

\* ... and then the write deadline.
SetDeadlineSecond(t) ==
    /\ t \in half /\ W!Set(t)
    /\ half' = {} /\ UNCHANGED deadlineVars

ReadSide == DeadlineNext /\ UNCHANGED <<writeVars, half>>

WriteSide ==
    /\ \/ \E t \in Times : W!Set(t)
       \/ W!Stop \/ W!TimerFires
       \/ \E g \in startedW : W!Expire(g)
    /\ UNCHANGED <<deadlineVars, half>>

PairNext ==
    \/ ReadSide \/ WriteSide
    \/ \E t \in Times : SetDeadline(t) \/ SetDeadlineSecond(t)

\* The fairness of the two deadlines.
PairSpec == PairInit /\ [][PairNext]_pairVars /\ DeadlineFairness /\ W!Fairness

-----------------------------------------------------------------------------
(* Properties; those of the read deadline are in ReadDeadline *)

\* A superseded or stopped write deadline never breaks the upload pipe, though
\* its callback may still run; one that has passed does break it.  What happens
\* to the read deadline does not matter.
ImplementsFairAlarm == W!ImplementsFairAlarm
=============================================================================
