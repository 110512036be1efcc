---------------------------- MODULE ReadDeadline ----------------------------
(***************************************************************************)
(* readDeadline of transport/v2rayxhttp/conn.go: a mutex, a timer whose    *)
(* callback may already be on its way when it is stopped, a generation     *)
(* that makes late callbacks harmless, and a callback (onExpire) that runs *)
(* after the lock is released, on the goroutine that expired the deadline. *)
(*                                                                         *)
(* Each critical section is one step.  Times are natural numbers; 0 is the *)
(* zero time.Time, which clears the deadline.                              *)
(***************************************************************************)
EXTENDS Naturals

CONSTANTS
    Times,         \* the deadlines callers set, 0 included
    MaxTime,       \* bound: the clock stops here
    MaxGeneration  \* bound: calls of set and stop (a uint64 in the code)

ASSUME TimesAssumption ==
    Times \subseteq Nat /\ 0 \in Times /\ MaxTime \in Nat /\ MaxGeneration \in Nat

VARIABLES
    now,
    generation,
    timer,      \* the time of d.timer; 0 is nil
    fired,      \* the runtime has started the callback of d.timer
    started,    \* callbacks on their way to expire, by generation
    expired,    \* d.expired; d.dead is closed with it
    toRun,      \* calls of runOnExpire that are due
    ran         \* calls of runOnExpire that were made

deadlineVars == <<now, generation, timer, fired, started, expired, toRun, ran>>

DeadlineInit ==
    /\ now = 0 /\ generation = 0
    /\ timer = 0 /\ fired = FALSE /\ started = {}
    /\ expired = FALSE /\ toRun = 0 /\ ran = 0

\* Mutant: whether to announce the expiry is decided after expired is set.
ExpireLockedSilent == expired' = TRUE /\ UNCHANGED toRun

ExpireLocked ==
    /\ expired' = TRUE
    /\ toRun' = IF expired THEN toRun ELSE toRun + 1

Set(t) ==
    /\ generation < MaxGeneration                       \* bound
    /\ generation' = generation + 1
    /\ fired' = FALSE
    /\ timer' = IF t = 0 \/ expired \/ t <= now THEN 0 ELSE t
    /\ IF t # 0 /\ ~expired /\ t <= now THEN ExpireLocked
                                        ELSE UNCHANGED <<expired, toRun>>
    /\ UNCHANGED <<now, started, ran>>

Stop ==
    /\ generation < MaxGeneration                       \* bound
    /\ generation' = generation + 1
    /\ fired' = FALSE /\ timer' = 0
    /\ UNCHANGED <<now, started, expired, toRun, ran>>

\* time.AfterFunc starts the callback; Stop no longer prevents it.
TimerFires ==
    /\ timer # 0 /\ timer <= now /\ ~fired
    /\ fired' = TRUE
    /\ started' = started \union {generation}
    /\ UNCHANGED <<now, generation, timer, expired, toRun, ran>>

\* Mutant: the callback does not look at the generation.
ExpireAny(g) ==
    /\ g \in started
    /\ started' = started \ {g}
    /\ ExpireLocked
    /\ UNCHANGED <<now, generation, timer, fired, ran>>

Expire(g) ==
    /\ g \in started
    /\ started' = started \ {g}
    /\ IF g = generation THEN ExpireLocked ELSE UNCHANGED <<expired, toRun>>
    /\ UNCHANGED <<now, generation, timer, fired, ran>>

RunOnExpire ==
    /\ toRun > 0
    /\ toRun' = toRun - 1
    /\ ran' = ran + 1
    /\ UNCHANGED <<now, generation, timer, fired, started, expired>>

Tick ==
    /\ now < MaxTime
    /\ now' = now + 1
    /\ UNCHANGED <<generation, timer, fired, started, expired, toRun, ran>>

DeadlineNext ==
    \/ \E t \in Times : Set(t)
    \/ Stop
    \/ TimerFires
    \/ \E g \in started : Expire(g)
    \/ RunOnExpire
    \/ Tick

DeadlineSpec == DeadlineInit /\ [][DeadlineNext]_deadlineVars

\* The runtime fires due timers, and goroutines that hold no lock go on.
DeadlineFairness ==
    /\ WF_deadlineVars(TimerFires)
    /\ WF_deadlineVars(\E g \in started : Expire(g))
    /\ WF_deadlineVars(RunOnExpire)

DeadlineFairSpec == DeadlineSpec /\ DeadlineFairness

-----------------------------------------------------------------------------
(* Properties *)

\* Every field holds a value of its Go type.
DeadlineTypeOK ==
    /\ now \in Nat /\ generation \in Nat
    /\ timer \in Nat /\ fired \in BOOLEAN /\ started \subseteq Nat
    /\ expired \in BOOLEAN /\ toRun \in Nat /\ ran \in Nat

\* The expiry callback, which closes the body or fails the connection, is
\* called once for an expired deadline and never for one that is not, whatever
\* set, stop and timer callbacks race (expireLocked).
CallbackOnce == toRun + ran = IF expired THEN 1 ELSE 0

A == INSTANCE Alarm
     WITH deadline <- IF expired THEN 0 ELSE timer, calls <- generation

\* set, stop and expire keep the promise of Alarm: a superseded or stopped
\* deadline never expires, though its callback may still run (expire).
ImplementsAlarm == A!AlarmSpec

\* The callback of an expired deadline does run (runOnExpire).
CallbackRuns == expired ~> ran = 1
=============================================================================
