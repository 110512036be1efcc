----------------------------- MODULE DnsConnPool ----------------------------
(***************************************************************************)
(* ConnPool of dns/transport/conn_pool.go in the mode its users choose     *)
(* (ConnPoolSingle): the queries of a DNS transport share one connection,  *)
(* which the first of them dials for all.  Reset and Close replace the     *)
(* state of the pool and tear the old one down after the lock is released. *)
(*                                                                         *)
(* Each section under p.access is one step.  A connPoolState is known by   *)
(* its number; a connPoolConnect and the connection it brings are one      *)
(* member of Conns, numbered as they are dialled.                          *)
(***************************************************************************)
EXTENDS Naturals, FiniteSets

CONSTANTS
    Callers,     \* calls of Acquire, with what their caller does afterwards
    NoCaller,
    MaxDials,    \* bound: calls of dial
    MaxResets    \* bound: calls of Reset

ASSUME PoolAssumption ==
    NoCaller \notin Callers /\ MaxDials \in Nat /\ MaxResets \in Nat

Gens == 0..MaxResets

Conns == 1..MaxDials

NoConn == 0

VARIABLES
    closed, cur,   \* p.closed, p.state
    st,            \* the states; tear: closeState is due, or done
    dial,          \* connectSingle; ok: it has a connection, err: state.err
    call,          \* acquireShared and the use of what it returned
    ctxDone,       \* callers whose context has ended
    connClosed,    \* connections that were closed
    cancelled,     \* connections whose sharedCancel was called
    handed, claims \* connections that were returned; how often as "created"

vars == <<closed, cur, st, dial, call, ctxDone, connClosed, cancelled,
          handed, claims>>

connVars == <<connClosed, cancelled>>

NewState ==
    [all |-> {}, shared |-> NoConn, claimed |-> FALSE, connecting |-> NoConn,
     ended |-> FALSE, tear |-> "none"]

Init ==
    /\ closed = FALSE /\ cur = 0
    /\ st = [g \in Gens |-> NewState]
    /\ dial = [d \in Conns |-> [pc |-> "unused", gen |-> 0, owner |-> NoCaller,
                                ok |-> FALSE, err |-> FALSE]]
    /\ call = [w \in Callers |-> [pc |-> "look", gen |-> 0, conn |-> NoConn]]
    /\ ctxDone = {} /\ connClosed = {} /\ cancelled = {}
    /\ handed = {} /\ claims = [c \in Conns |-> 0]

At(w, p) == call[w].pc = p

Acquiring == {"look", "wait", "collect", "drop"}

GoOn(w, p) == call' = [call EXCEPT ![w].pc = p]

Leave(w, p) == call' = [call EXCEPT ![w] = [pc |-> p, gen |-> 0, conn |-> NoConn]]

\* Mutant: the connection is new for the caller that started the dial, only.
HandOutToStarter(w, c) ==
    /\ st' = [st EXCEPT ![cur].claimed = TRUE]
    /\ claims' = [claims EXCEPT ![c] = IF dial[c].owner = w THEN @ + 1 ELSE @]
    /\ handed' = handed \union {c}
    /\ call' = [call EXCEPT ![w].pc = "held", ![w].conn = c]

\* The connection is given to a caller; the first one is told it is new, and
\* starts what reads from it.
HandOut(w, c) ==
    /\ st' = [st EXCEPT ![cur].claimed = TRUE]
    /\ claims' = [claims EXCEPT ![c] = IF st[cur].claimed THEN @ ELSE @ + 1]
    /\ handed' = handed \union {c}
    /\ call' = [call EXCEPT ![w].pc = "held", ![w].conn = c]

\* Mutant: the context of the removed connection goes on.
RemoveConnQuietly(c) ==
    /\ st' = [st EXCEPT ![cur].all = @ \ {c}, ![cur].shared = NoConn,
                        ![cur].claimed = FALSE]
    /\ UNCHANGED cancelled

\* removeConn in the current state.
RemoveConn(c) ==
    IF st[cur].shared = c
    THEN /\ st' = [st EXCEPT ![cur].all = @ \ {c}, ![cur].shared = NoConn,
                             ![cur].claimed = FALSE]
         /\ cancelled' = cancelled \union {c}
    ELSE /\ st' = [st EXCEPT ![cur].all = @ \ {c}]
         /\ UNCHANGED cancelled

-----------------------------------------------------------------------------
(* acquireShared *)

LookClosed(w) ==
    /\ At(w, "look") /\ closed
    /\ Leave(w, "gone")
    /\ UNCHANGED <<closed, cur, st, dial, ctxDone, connVars, handed, claims>>

\* There is a connection: it is returned, or removed when it is not alive.  (A
\* connection that IsAlive has found dead is always removed, so that its answer
\* need not be remembered.)
LookShared(w) ==
    LET c == st[cur].shared IN
    /\ At(w, "look") /\ ~closed /\ c # NoConn
    /\ \/ HandOut(w, c) /\ UNCHANGED cancelled
       \/ /\ RemoveConn(c)
          /\ call' = [call EXCEPT ![w].pc = "drop", ![w].conn = c]
          /\ UNCHANGED <<handed, claims>>
    /\ UNCHANGED <<closed, cur, dial, ctxDone, connClosed>>

\* Mutant: every caller dials.
LookNoneAlone(w) ==
    /\ At(w, "look") /\ ~closed /\ st[cur].shared = NoConn
    /\ \E d \in Conns :
         /\ dial[d].pc = "unused"
         /\ dial' = [dial EXCEPT ![d].pc = "dialing", ![d].gen = cur, ![d].owner = w]
         /\ st' = [st EXCEPT ![cur].connecting = d]
         /\ call' = [call EXCEPT ![w] = [pc |-> "wait", gen |-> cur, conn |-> d]]
    /\ UNCHANGED <<closed, cur, ctxDone, connVars, handed, claims>>

\* There is none: the caller waits for the dial, which it starts if nobody has.
LookNone(w) ==
    /\ At(w, "look") /\ ~closed /\ st[cur].shared = NoConn
    /\ IF st[cur].connecting # NoConn
       THEN /\ call' = [call EXCEPT ![w] = [pc |-> "wait", gen |-> cur,
                                            conn |-> st[cur].connecting]]
            /\ UNCHANGED <<st, dial>>
       ELSE \E d \in Conns :
              /\ dial[d].pc = "unused" /\ \A e \in 1..(d - 1) : dial[e].pc # "unused"
              /\ dial' = [dial EXCEPT ![d].pc = "dialing", ![d].gen = cur, ![d].owner = w]
              /\ st' = [st EXCEPT ![cur].connecting = d]
              /\ call' = [call EXCEPT ![w] = [pc |-> "wait", gen |-> cur, conn |-> d]]
    /\ UNCHANGED <<closed, cur, ctxDone, connVars, handed, claims>>

\* The select of acquireShared: the dial is done, the caller's context has
\* ended, or the state's context has.
Wait(w) ==
    /\ At(w, "wait")
    /\ \/ dial[call[w].conn].pc = "done" /\ GoOn(w, "collect")
       \/ w \in ctxDone /\ Leave(w, "gone")
       \/ st[call[w].gen].ended /\ Leave(w, IF closed THEN "gone" ELSE "look")
    /\ UNCHANGED <<closed, cur, st, dial, ctxDone, connVars, handed, claims>>

\* collectShared.  A dial that failed is the failure of the caller that started
\* it; the others try again.
Collect(w) ==
    LET d == call[w].conn
        c == st[cur].shared IN
    /\ At(w, "collect")
    /\ \/ /\ dial[d].err
          /\ Leave(w, IF dial[d].owner = w THEN "gone" ELSE "look")
          /\ UNCHANGED <<st, cancelled, handed, claims>>
       \/ /\ ~dial[d].err /\ (closed \/ call[w].gen # cur)
          /\ Leave(w, "gone")
          /\ UNCHANGED <<st, cancelled, handed, claims>>
       \/ /\ ~dial[d].err /\ ~closed /\ call[w].gen = cur /\ c = NoConn
          /\ Leave(w, "look")
          /\ UNCHANGED <<st, cancelled, handed, claims>>
       \/ /\ ~dial[d].err /\ ~closed /\ call[w].gen = cur /\ c # NoConn
          /\ RemoveConn(c)
          /\ call' = [call EXCEPT ![w].pc = "drop", ![w].conn = c]
          /\ UNCHANGED <<handed, claims>>
       \/ /\ ~dial[d].err /\ ~closed /\ call[w].gen = cur /\ c # NoConn
          /\ HandOut(w, c)
          /\ UNCHANGED cancelled
    /\ UNCHANGED <<closed, cur, dial, ctxDone, connClosed>>

\* options.Close on a connection that was found dead; then the loop goes on.
Drop(w) ==
    /\ At(w, "drop")
    /\ connClosed' = connClosed \union {call[w].conn}
    /\ Leave(w, "look")
    /\ UNCHANGED <<closed, cur, st, dial, ctxDone, cancelled, handed, claims>>

Acquire(w) ==
    LookClosed(w) \/ LookShared(w) \/ LookNone(w) \/ Wait(w) \/ Collect(w) \/ Drop(w)

-----------------------------------------------------------------------------
(* What the caller does with the connection it holds *)

\* Release: a connection of the current state stays in the pool if it may be
\* reused and is alive; any other one is closed.
Release(w) ==
    LET c == call[w].conn IN
    /\ At(w, "held")
    /\ \/ /\ closed \/ c \notin st[cur].all
          /\ GoOn(w, "close")
          /\ UNCHANGED <<st, cancelled>>
       \/ /\ ~closed /\ c \in st[cur].all
          /\ RemoveConn(c)                \* not to be reused, or not alive
          /\ GoOn(w, "close")
       \/ /\ ~closed /\ c \in st[cur].all
          /\ Leave(w, "gone")
          /\ UNCHANGED <<st, cancelled>>
    /\ UNCHANGED <<closed, cur, dial, ctxDone, connClosed, handed, claims>>

\* Invalidate leaves a connection of an older state to closeState.
Invalidate(w) ==
    LET c == call[w].conn IN
    /\ At(w, "held")
    /\ \/ closed /\ GoOn(w, "close") /\ UNCHANGED <<st, cancelled>>
       \/ /\ ~closed /\ c \notin st[cur].all
          /\ Leave(w, "gone")
          /\ UNCHANGED <<st, cancelled>>
       \/ ~closed /\ c \in st[cur].all /\ RemoveConn(c) /\ GoOn(w, "close")
    /\ UNCHANGED <<closed, cur, dial, ctxDone, connClosed, handed, claims>>

\* options.Close, after the lock.
CloseConn(w) ==
    /\ At(w, "close")
    /\ connClosed' = connClosed \union {call[w].conn}
    /\ Leave(w, "gone")
    /\ UNCHANGED <<closed, cur, st, dial, ctxDone, cancelled, handed, claims>>

\* Only the wait, and the dial the caller has started for it, look at the context.
CancelCtx(w) ==
    /\ w \notin ctxDone /\ At(w, "wait")
    /\ ctxDone' = ctxDone \union {w}
    /\ UNCHANGED <<closed, cur, st, dial, call, connVars, handed, claims>>

-----------------------------------------------------------------------------
(* connectSingle *)

\* The context of the dial ends with that of the caller that started it and
\* with that of the state.
DialEnded(d) == dial[d].owner \in ctxDone \/ st[dial[d].gen].ended

\* dial returns; a connection that comes after the context has ended is closed.
\* Nobody else knows of it yet, so that the close is part of the step.
DialReturns(d) ==
    /\ dial[d].pc = "dialing"
    /\ \E ok \in BOOLEAN :
         /\ dial' = [dial EXCEPT ![d].pc = "install", ![d].ok = ok,
                                 ![d].err = ~ok \/ DialEnded(d)]
         /\ connClosed' = connClosed \union IF ok /\ DialEnded(d) THEN {d} ELSE {}
    /\ UNCHANGED <<closed, cur, st, call, ctxDone, cancelled, handed, claims>>

\* Mutant: the state may have been replaced while the dial was on its way.
DialInstallAnyway(d) ==
    LET g == dial[d].gen IN
    /\ dial[d].pc = "install"
    /\ dial' = [dial EXCEPT ![d].pc = "finish"]
    /\ st' = IF dial[d].err
             THEN [st EXCEPT ![g].connecting = NoConn]
             ELSE [st EXCEPT ![g].connecting = NoConn, ![g].shared = d,
                             ![g].all = @ \union {d}]
    /\ UNCHANGED <<closed, cur, call, ctxDone, connVars, handed, claims>>

\* The locked part: the connection becomes that of the state it was dialled for,
\* if that is still the state of the pool, and is closed otherwise.
DialInstall(d) ==
    LET g == dial[d].gen
        late == closed \/ g # cur IN
    /\ dial[d].pc = "install"
    /\ dial' = [dial EXCEPT ![d].pc = "finish", ![d].err = @ \/ late]
    /\ IF dial[d].err \/ late
       THEN /\ st' = [st EXCEPT ![g].connecting = NoConn]
            /\ connClosed' = connClosed \union IF dial[d].err THEN {} ELSE {d}
       ELSE /\ st' = [st EXCEPT ![g].connecting = NoConn, ![g].shared = d,
                                ![g].all = @ \union {d}]
            /\ UNCHANGED connClosed
    /\ UNCHANGED <<closed, cur, call, ctxDone, cancelled, handed, claims>>

\* close(state.done)
DialFinish(d) ==
    /\ dial[d].pc = "finish"
    /\ dial' = [dial EXCEPT ![d].pc = "done"]
    /\ UNCHANGED <<closed, cur, st, call, ctxDone, connVars, handed, claims>>

ConnectSingle(d) ==
    DialReturns(d) \/ DialInstall(d) \/ DialFinish(d)

-----------------------------------------------------------------------------
(* Reset and Close *)

Reset ==
    /\ ~closed /\ cur < MaxResets                       \* bound
    /\ cur' = cur + 1
    /\ st' = [st EXCEPT ![cur].tear = "due"]
    /\ UNCHANGED <<closed, dial, call, ctxDone, connVars, handed, claims>>

Close ==
    /\ ~closed
    /\ closed' = TRUE
    /\ st' = [st EXCEPT ![cur].tear = "due"]
    /\ UNCHANGED <<cur, dial, call, ctxDone, connVars, handed, claims>>

\* Mutant: the connections are closed and the context is left alone.
CloseStateOnly(g) ==
    /\ st[g].tear = "due"
    /\ st' = [st EXCEPT ![g].tear = "done"]
    /\ connClosed' = connClosed \union st[g].all
    /\ UNCHANGED <<closed, cur, dial, call, ctxDone, cancelled, handed, claims>>

\* closeState, after the lock: the context of the state ends, then its
\* connections are closed.
CloseState(g) ==
    /\ st[g].tear = "due"
    /\ st' = [st EXCEPT ![g].tear = "done", ![g].ended = TRUE]
    /\ connClosed' = connClosed \union st[g].all
    /\ UNCHANGED <<closed, cur, dial, call, ctxDone, cancelled, handed, claims>>

-----------------------------------------------------------------------------
Next ==
    \/ \E w \in Callers : Acquire(w) \/ Release(w) \/ Invalidate(w) \/ CloseConn(w)
                           \/ CancelCtx(w)
    \/ \E d \in Conns : ConnectSingle(d)
    \/ \E g \in Gens : CloseState(g)
    \/ Reset \/ Close

Spec == Init /\ [][Next]_vars

\* Goroutines go on and locks are given in the end; dial returns when its context
\* has ended, and need not return before.
Fairness ==
    /\ \A w \in Callers : WF_vars(Acquire(w)) /\ WF_vars(CloseConn(w))
    /\ \A d \in Conns :
         /\ WF_vars(DialEnded(d) /\ DialReturns(d))
         /\ WF_vars(DialInstall(d) \/ DialFinish(d))
    /\ \A g \in Gens : WF_vars(CloseState(g))

FairSpec == Spec /\ Fairness

-----------------------------------------------------------------------------
(* Properties *)

\* Exactly one caller is told that a connection is new, however many share it
\* and whoever dialled it; the multiplexer starts one recvLoop for it, neither
\* two nor none (multiplexer.go:304).
ClaimedOnce ==
    \A c \in Conns : claims[c] = IF c \in handed THEN 1 ELSE 0

\* A state has one dial on its way at a time and keeps one connection at most,
\* so that all its callers share it.
SingleFlight ==
    \A g \in Gens :
      /\ {d \in Conns : dial[d].gen = g /\ dial[d].pc \in {"dialing", "install"}}
           = {st[g].connecting} \ {NoConn}
      /\ st[g].all = {st[g].shared} \ {NoConn}
      /\ st[g].connecting # NoConn => st[g].shared = NoConn

Dropping(c) ==
    \/ \E w \in Callers : call[w].conn = c /\ call[w].pc \in {"drop", "close"}
    \/ dial[c].pc = "install"

\* No connection is lost: one that was dialled is shared by the current state,
\* about to be closed by somebody, or closed.
NoConnectionLost ==
    \A c \in Conns : dial[c].ok =>
      \/ c \in connClosed \/ Dropping(c)
      \/ \E g \in Gens : /\ c \in st[g].all
                         /\ (~closed /\ g = cur) \/ st[g].tear = "due"

Installed == {c \in Conns : dial[c].pc \in {"finish", "done"} /\ ~dial[c].err}

S == INSTANCE SharedConn
     WITH shared  <- IF closed THEN NoConn ELSE st[cur].shared,
          claimed <- ~closed /\ st[cur].claimed,
          used    <- Installed,
          ended   <- {c \in Installed : c \in cancelled \/ st[dial[c].gen].ended}

\* The states, dials and locks of the pool keep the promise of SharedConn, which
\* is all that QueryMultiplexer knows of the pool: one connection at a time, new
\* to one caller, never back once it was taken away, and its context ends then.
ImplementsSharedConn == S!PoolSpec /\ S!ReplacedEnds

\* A caller whose context ends, or whose pool is closed, returns: no waiter is
\* left on a state that Reset or Close has replaced.  (The last disjunct is the
\* end of the bounded dials.)
AcquireReturns ==
    \A w \in Callers :
      (w \in ctxDone \/ closed) /\ call[w].pc \in Acquiring
        ~> call[w].pc \notin Acquiring \/ (\A d \in Conns : dial[d].pc = "done")

=============================================================================
