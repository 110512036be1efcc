-------------------------- MODULE QueryMultiplexer --------------------------
(***************************************************************************)
(* queryMultiplexer of dns/transport/multiplexer.go: the queries of a DNS  *)
(* transport over one shared connection (SharedConn, which DnsConnPool     *)
(* implements).  Four goroutines may end a query: the one that writes it,  *)
(* the recvLoop of its connection, and the two AfterFuncs of its context   *)
(* and of the connection's.  Who takes it from m.queries calls back.       *)
(*                                                                         *)
(* A query has up to two exchanges: the retry after a read error is the    *)
(* second, and the first may still be writing.  Whether the server is      *)
(* known to support reuse (probeReuse) may change at any time, so that     *)
(* dispatch may choose either way.  Query ids do not wrap here: a bound    *)
(* of 2^16 registrations on the life of a stale id.  retryReadError is     *)
(* set, as tcp.go and tls.go do; udp.go only lacks the retry.              *)
(***************************************************************************)
EXTENDS Naturals, FiniteSets, SharedConn

CONSTANTS Queries, MaxIds     \* bound: registrations

ASSUME MuxAssumption ==
    NoConn \notin Conns /\ Conns \subseteq Nat /\ MaxIds \in Nat

Ids == 1..MaxIds

Exchanges == Queries \X {1, 2}

Query(x) == x[1]

VARIABLES
    ex,        \* exchangeAsync or exchangeSingle, for each exchange
    reg,       \* m.queries, and what becomes of an entry that was taken
    queryId,   \* m.queryId
    reader,    \* recvLoop of each connection, with the message it has read
    sent,      \* what the server has of each connection: an id and its query
    readErr,   \* connections whose context ended with a read error
    ctxDone,   \* queries whose context has ended
    calls,     \* how often the callback of each query was called
    foreign    \* queries that were given the answer to another one

vars == <<poolVars, ex, reg, queryId, reader, sent, readErr, ctxDone, calls, foreign>>

Free == [st |-> "free"]

Idle == [pc |-> "done", conn |-> NoConn, created |-> FALSE, id |-> 0,
         first |-> TRUE, took |-> FALSE]

NoMessage == [id |-> 0, q |-> NoConn]

Init ==
    /\ PoolInit
    /\ \E way \in [Queries -> {"acquire", "single"}] :
         ex = [x \in Exchanges |-> [Idle EXCEPT !.pc = IF x[2] = 1 THEN way[x[1]] ELSE "unused"]]
    /\ reg = [i \in Ids |-> Free]
    /\ queryId = 0
    /\ reader = [c \in Conns |-> [pc |-> "none", msg |-> NoMessage]]
    /\ sent = [c \in Conns |-> {}]
    /\ readErr = {}
    /\ ctxDone = {} /\ foreign = {}
    /\ calls = [q \in Queries |-> 0]

At(x, p) == ex[x].pc = p

Callback(q) == calls' = [calls EXCEPT ![q] = @ + 1]

Finish(x) == ex' = [ex EXCEPT ![x] = Idle]

Pending(i) == reg[i].st = "pending"

\* take: the entry is deleted; whoever did it answers for the query.
Take(i) == reg' = [reg EXCEPT ![i] = Free]

\* m.connection.Invalidate; a connection that is no longer shared is left alone.
InvalidateConn(c) == IF shared = c THEN Remove(c) ELSE UNCHANGED poolVars

-----------------------------------------------------------------------------
(* dispatch, exchangeSingle and exchangeAsync *)

\* The context of the query ends; after the callback nobody looks at it.
EndCtx(q) ==
    /\ q \notin ctxDone /\ calls[q] = 0
    /\ ctxDone' = ctxDone \union {q}
    /\ UNCHANGED <<poolVars, ex, reg, queryId, reader, sent, readErr, calls, foreign>>

\* dispatch: over the shared connection, or over one of its own.
Dispatch(x) == \E p \in {"acquire", "single"} : ex' = [ex EXCEPT ![x] = [Idle EXCEPT !.pc = p]]

\* exchangeSingle ends, with an answer or an error.
Single(x) ==
    /\ At(x, "single")
    /\ Finish(x)
    /\ Callback(Query(x))
    /\ UNCHANGED <<poolVars, reg, queryId, reader, sent, readErr, ctxDone, foreign>>

\* AcquireShared fails: the dial, the context, or the pool was closed.
AcquireFails(x) ==
    /\ At(x, "acquire")
    /\ Finish(x)
    /\ Callback(Query(x))
    /\ UNCHANGED <<poolVars, reg, queryId, reader, sent, readErr, ctxDone, foreign>>

\* AcquireShared returns; who is told that the connection is new starts recvLoop.
Acquire(x) ==
    /\ At(x, "acquire")
    /\ HandOut
    /\ ex' = [ex EXCEPT ![x].pc = "register", ![x].conn = shared, ![x].created = ~claimed]
    /\ reader' = IF claimed THEN reader ELSE [reader EXCEPT ![shared].pc = "read"]
    /\ UNCHANGED <<reg, queryId, sent, readErr, ctxDone, calls, foreign>>

NewEntry(x) ==
    [st |-> "pending", x |-> x, conn |-> ex[x].conn, silent |-> TRUE,
     retry |-> x[2] = 1 /\ ~ex[x].created]

\* Mutant: the id is the first that nobody waits for.
RegisterFirst(x) ==
    /\ At(x, "register")
    /\ \E i \in Ids :
         /\ reg[i] = Free /\ \A j \in 1..(i - 1) : reg[j] # Free
         /\ reg' = [reg EXCEPT ![i] = NewEntry(x)]
         /\ ex' = [ex EXCEPT ![x].pc = "write", ![x].id = i]
    /\ UNCHANGED <<poolVars, queryId, reader, sent, readErr, ctxDone, calls, foreign>>

\* register; both AfterFuncs are armed from here on, and run at once when their
\* context has ended before.
Register(x) ==
    /\ At(x, "register") /\ queryId < MaxIds                       \* bound
    /\ queryId' = queryId + 1
    /\ reg' = [reg EXCEPT ![queryId'] = NewEntry(x)]
    /\ ex' = [ex EXCEPT ![x].pc = "write", ![x].id = queryId']
    /\ UNCHANGED <<poolVars, reader, sent, readErr, ctxDone, calls, foreign>>

\* All ids belong to queries that are waiting: Release changes nothing.
RegisterFull(x) ==
    /\ At(x, "register")
    /\ Finish(x)
    /\ Callback(Query(x))
    /\ UNCHANGED <<poolVars, reg, queryId, reader, sent, readErr, ctxDone, foreign>>

\* The server has the query; write returns, or has not yet and may still fail.
WriteOut(x) ==
    /\ At(x, "write")
    /\ sent' = [sent EXCEPT ![ex[x].conn] = @ \union {[id |-> ex[x].id, q |-> Query(x)]}]
    /\ Finish(x) \/ ex' = [ex EXCEPT ![x].pc = "written"]
    /\ UNCHANGED <<poolVars, reg, queryId, reader, readErr, ctxDone, calls, foreign>>

\* write returns an error, whatever the server has got.
WriteFails(x) ==
    /\ At(x, "write") \/ At(x, "written")
    /\ ex' = [ex EXCEPT ![x].pc = "invalidate", ![x].took = Pending(ex[x].id)]
    /\ IF Pending(ex[x].id) THEN Take(ex[x].id) ELSE UNCHANGED reg
    /\ UNCHANGED <<poolVars, queryId, reader, sent, readErr, ctxDone, calls, foreign>>

\* Mutant: who took the query from m.queries does not matter.
WriteFailedAnyway(x) ==
    /\ At(x, "invalidate")
    /\ InvalidateConn(ex[x].conn)
    /\ Finish(x) /\ Callback(Query(x))
    /\ UNCHANGED <<reg, queryId, reader, sent, readErr, ctxDone, foreign>>

\* The connection is invalidated; if nobody else has taken the query, it is tried
\* once more on another connection, unless this one was new.
WriteFailed(x) ==
    /\ At(x, "invalidate")
    /\ InvalidateConn(ex[x].conn)
    /\ \/ ~ex[x].took /\ Finish(x) /\ UNCHANGED calls
       \/ /\ ex[x].took /\ ~ex[x].created /\ ex[x].first
          /\ ex' = [ex EXCEPT ![x] = [Idle EXCEPT !.pc = "acquire", !.first = FALSE]]
          /\ UNCHANGED calls
       \/ /\ ex[x].took /\ (ex[x].created \/ ~ex[x].first)
          /\ Finish(x) /\ Callback(Query(x))
    /\ UNCHANGED <<reg, queryId, reader, sent, readErr, ctxDone, foreign>>

-----------------------------------------------------------------------------
(* The AfterFuncs of a registered query *)

\* completeConnDone: a query whose connection died of a read error, and was not
\* new, is dispatched again, without a further retry.
ConnDone(i) ==
    /\ Pending(i) /\ reg[i].conn \in ended
    /\ Take(i)
    /\ IF reg[i].retry /\ reg[i].conn \in readErr
       THEN Dispatch(<<Query(reg[i].x), 2>>) /\ UNCHANGED calls
       ELSE Callback(Query(reg[i].x)) /\ UNCHANGED ex
    /\ UNCHANGED <<poolVars, queryId, reader, sent, readErr, ctxDone, foreign>>

\* completeContextDone takes the query.
CtxDone(i) ==
    /\ Pending(i) /\ Query(reg[i].x) \in ctxDone
    /\ reg' = [reg EXCEPT ![i].st = "taken"]
    /\ UNCHANGED <<poolVars, ex, queryId, reader, sent, readErr, ctxDone, calls, foreign>>

\* If it was the deadline that ended the context, and nothing was read since the
\* query was registered, the connection is dropped.  (The epoch is read between
\* the two steps, so that a read in between may go either way.)
CtxFinish(i) ==
    /\ reg[i].st = "taken"
    /\ \/ reg[i].silent /\ InvalidateConn(reg[i].conn)
       \/ UNCHANGED poolVars
    /\ Take(i)
    /\ Callback(Query(reg[i].x))
    /\ UNCHANGED <<ex, queryId, reader, sent, readErr, ctxDone, foreign>>

-----------------------------------------------------------------------------
(* recvLoop *)

\* readNext returns: an answer the server sends, early, late or twice, or a
\* message that is not one.  The read epoch of the connection moves on.
Read(c) ==
    /\ reader[c].pc = "read"
    /\ \E m \in sent[c] \union {NoMessage} :
         reader' = [reader EXCEPT ![c] = [pc |-> IF m = NoMessage THEN "read" ELSE "complete",
                                          msg |-> m]]
    /\ reg' = [i \in Ids |-> IF Pending(i) /\ reg[i].conn = c
                             THEN [reg[i] EXCEPT !.silent = FALSE] ELSE reg[i]]
    /\ UNCHANGED <<poolVars, ex, queryId, sent, readErr, ctxDone, calls, foreign>>

\* complete: the entry of the id, whatever its connection is.  (Release leaves a
\* shared connection alone, and closes one that is not shared any more.)
Complete(c) ==
    LET i == reader[c].msg.id IN
    /\ reader[c].pc = "complete"
    /\ reader' = [reader EXCEPT ![c] = [pc |-> "read", msg |-> NoMessage]]
    /\ IF Pending(i)
       THEN /\ Take(i)
            /\ Callback(Query(reg[i].x))
            /\ foreign' = foreign \union ({Query(reg[i].x)} \ {reader[c].msg.q})
       ELSE UNCHANGED <<reg, calls, foreign>>
    /\ UNCHANGED <<poolVars, ex, queryId, sent, readErr, ctxDone>>

\* Mutant: the goroutine ends and leaves the connection in the pool.
ReadFailedQuietly(c) ==
    /\ reader[c].pc = "read"
    /\ reader' = [reader EXCEPT ![c].pc = "stopped"]
    /\ UNCHANGED <<poolVars, ex, reg, queryId, sent, readErr, ctxDone, calls, foreign>>

\* readNext fails.  recordConnDeath is about the choice dispatch makes; then
\* Invalidate with a queryMultiplexerReadError, which is what the context of the
\* connection ends with if it is first.
ReadFailed(c) ==
    /\ reader[c].pc = "read"
    /\ reader' = [reader EXCEPT ![c].pc = "stopped"]
    /\ sent' = [sent EXCEPT ![c] = {}]                \* nobody reads it any more
    /\ readErr' = IF shared = c THEN readErr \union {c} ELSE readErr
    /\ InvalidateConn(c)
    /\ UNCHANGED <<ex, reg, queryId, ctxDone, calls, foreign>>

-----------------------------------------------------------------------------
\* What the pool does by itself: dials, in their order, and Reset and Close.  (A
\* connection that comes when nobody waits for it is not seen until somebody does.)
Pool ==
    /\ \/ /\ \E x \in Exchanges : At(x, "acquire")
          /\ \E c \in Conns : Connect(c) /\ \A d \in Conns : d < c => d \in used
       \/ shared # NoConn /\ Replace
       \/ \E c \in Conns \ ended : EndReplaced(c)
    /\ UNCHANGED <<ex, reg, queryId, reader, sent, readErr, ctxDone, calls, foreign>>

Next ==
    \/ \E x \in Exchanges :
         \/ Single(x) \/ AcquireFails(x) \/ Acquire(x) \/ Register(x) \/ RegisterFull(x)
         \/ WriteOut(x) \/ WriteFails(x) \/ WriteFailed(x)
    \/ \E i \in Ids : ConnDone(i) \/ CtxDone(i) \/ CtxFinish(i)
    \/ \E c \in Conns : Read(c) \/ Complete(c) \/ ReadFailed(c)
    \/ \E q \in Queries : EndCtx(q)
    \/ Pool

Spec == Init /\ [][Next]_vars

-----------------------------------------------------------------------------
(* Properties *)

\* The exchanges and the entries of m.queries that have to see to a query.
Busy(q) ==
    {x \in Exchanges : Query(x) = q /\ (ex[x].pc \in {"acquire", "single", "register"} \/ ex[x].took)}

Entries(q) == {i \in Ids : reg[i] # Free /\ Query(reg[i].x) = q}

\* A query is in one hand until its callback is called, and then in none: of the
\* writer, the reader, the two AfterFuncs and the exchange that retries it, one
\* has to call back and no two may.  It is neither forgotten nor called back
\* twice (Exchange closes a channel in the callback), whatever the first
\* exchange still does when the second has begun.
OneHand == \A q \in Queries : Cardinality(Busy(q)) + Cardinality(Entries(q)) + calls[q] = 1

\* An answer that comes late, twice, or after the query was sent again over
\* another connection, is never taken for the answer to another query.
AnswerIsOwn == foreign = {}

\* No query is left to a connection that nobody reads and whose context goes on:
\* when recvLoop has stopped, the pool has taken the connection away.
PendingIsRead ==
    \A i \in Ids : Pending(i) =>
      \/ reader[reg[i].conn].pc \in {"read", "complete"}
      \/ reg[i].conn \in ended \/ reg[i].conn # shared
=============================================================================
