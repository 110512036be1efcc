-------------------------------- MODULE Alarm -------------------------------
(***************************************************************************)
(* What a connection deadline promises (net.Conn.SetReadDeadline and       *)
(* SetWriteDeadline, as transport/v2rayxhttp uses them): only the latest   *)
(* deadline counts, it takes effect no earlier than its time, and once it  *)
(* has taken effect it cannot be taken back.                               *)
(***************************************************************************)
EXTENDS Naturals

CONSTANT Times     \* the deadlines that can be set; 0 clears the deadline

VARIABLES
    now,
    deadline,   \* the time of the latest deadline; 0 means none
    expired,
    calls       \* calls that set or cleared the deadline

alarmVars == <<now, deadline, expired, calls>>

AlarmInit == now = 0 /\ deadline = 0 /\ expired = FALSE /\ calls = 0

\* A deadline in the past takes effect at once.
AlarmSet(t) ==
    /\ expired' = (expired \/ (t # 0 /\ t <= now))
    /\ deadline' = IF t = 0 \/ expired' THEN 0 ELSE t
    /\ calls' = calls + 1
    /\ UNCHANGED now

AlarmExpire ==
    /\ deadline # 0 /\ deadline <= now
    /\ expired' = TRUE
    /\ deadline' = 0
    /\ UNCHANGED <<now, calls>>

AlarmTick == now' = now + 1 /\ UNCHANGED <<deadline, expired, calls>>

AlarmNext == (\E t \in Times : AlarmSet(t)) \/ AlarmExpire \/ AlarmTick

AlarmSpec == AlarmInit /\ [][AlarmNext]_alarmVars

AlarmFairSpec == AlarmSpec /\ WF_alarmVars(AlarmExpire)
=============================================================================
