---------------------------- MODULE WriteDeadline ---------------------------
(***************************************************************************)
(* writeDeadline of transport/v2rayxhttp/conn.go.  It differs from         *)
(* readDeadline: expiry closes the read half of the upload pipe under the  *)
(* lock (which does not block), there is no callback, and set does not     *)
(* look at an earlier expiry.  The pipe keeps its first error, so it stays *)
(* closed ("expired") whatever is set later.  The clock is that of         *)
(* Deadlines.                                                              *)
(***************************************************************************)
EXTENDS Naturals

CONSTANTS
    Times,         \* the deadlines callers set, 0 included
    MaxGeneration  \* bound: calls of set and stop (a uint64 in the code)

VARIABLES
    now,
    generation,
    timer,      \* the time of d.timer; 0 is nil
    fired,      \* the runtime has started the callback of d.timer
    started,    \* callbacks on their way to expire, by generation
    expired     \* the pipe was closed with os.ErrDeadlineExceeded

vars == <<now, generation, timer, fired, started, expired>>

Init ==
    /\ now = 0 /\ generation = 0
    /\ timer = 0 /\ fired = FALSE /\ started = {} /\ expired = FALSE

Set(t) ==
    /\ generation < MaxGeneration                       \* bound
    /\ generation' = generation + 1
    /\ fired' = FALSE
    /\ timer' = IF t <= now THEN 0 ELSE t
    /\ expired' = (expired \/ (t # 0 /\ t <= now))
    /\ UNCHANGED <<now, started>>

\* Mutant: stop trusts timer.Stop to keep the callback away.
StopTimerOnly ==
    /\ generation < MaxGeneration
    /\ fired' = FALSE /\ timer' = 0
    /\ UNCHANGED <<now, generation, started, expired>>

Stop ==
    /\ generation < MaxGeneration                       \* bound
    /\ generation' = generation + 1
    /\ fired' = FALSE /\ timer' = 0
    /\ UNCHANGED <<now, started, expired>>

\* time.AfterFunc starts the callback; Stop no longer prevents it.
TimerFires ==
    /\ timer # 0 /\ timer <= now /\ ~fired
    /\ fired' = TRUE
    /\ started' = started \union {generation}
    /\ UNCHANGED <<now, generation, timer, expired>>

Expire(g) ==
    /\ g \in started
    /\ started' = started \ {g}
    /\ expired' = (expired \/ g = generation)
    /\ UNCHANGED <<now, generation, timer, fired>>

\* The runtime fires due timers, and their goroutines get the lock.
Fairness == WF_vars(TimerFires) /\ WF_vars(\E g \in started : Expire(g))

-----------------------------------------------------------------------------
(* Properties *)

A == INSTANCE Alarm
     WITH deadline <- IF expired THEN 0 ELSE timer, calls <- generation

\* A superseded or stopped write deadline never breaks the upload pipe, though
\* its callback may still run; one that has passed does break it.
ImplementsFairAlarm == A!AlarmFairSpec
=============================================================================
