------------------------------ MODULE DnsClient ------------------------------
(***************************************************************************)
(* Client of dns/client.go: exchanges of one question over one transport,  *)
(* with the cache and cacheLock, which lets one exchange go to the server  *)
(* while equal ones wait for it, and the background refresh of an answer   *)
(* that has expired.                                                       *)
(*                                                                         *)
(* A cache key differs from another only in its environment, the network   *)
(* the host is in when the key is made (0 when that is not known); an      *)
(* exchange key has the timeout as well.  A channel in cacheLock is known  *)
(* by the call that made it: a call waits on another one until that one    *)
(* closes the channel.  The cache is the one in memory.                    *)
(***************************************************************************)
EXTENDS Naturals, FiniteSets

CONSTANTS Calls,      \* calls of Exchange, ExchangeAsync and lookupToExchange
          NoCall,
          Environments, Timeouts,
          MaxMoves    \* bound: changes of the network

ASSUME ClientAssumption ==
    /\ NoCall \notin Calls /\ 0 \in Environments
    /\ MaxMoves \in Nat

VARIABLES
    env,      \* what environmentHash returns
    moves,    \* how often it has changed
    call,     \* the calls
    lock,     \* cacheLock: who made the channel of an exchange key
    cache,    \* c.cache
    refresh   \* the goroutine of a key in backgroundRefresh

vars == <<env, moves, call, lock, cache, refresh>>

NoEntry == [age |-> "none", got |-> 0, asked |-> 0, hops |-> 0]

Idle == [pc |-> "none", since |-> 0, got |-> 0, to |-> 0, hops |-> 0]

\* key, since: the environment of cacheKey and when it was read; on: whose channel
\* the call waits for; owner: releaseCond is set; got: the network its answer
\* came from; to: the key of the answer.
NewCall == [pc |-> "begin", key |-> 0, since |-> 0, timeout |-> 0, owner |-> FALSE,
            loaded |-> FALSE, on |-> NoCall, waited |-> FALSE, async |-> FALSE, look |-> FALSE,
            optimistic |-> FALSE, got |-> 0, to |-> 0, hops |-> 0]

Init ==
    /\ env \in Environments /\ moves = 0
    /\ call = [c \in Calls |-> NewCall]
    /\ lock = [k \in Environments \X Timeouts |-> NoCall]
    /\ cache = [k \in Environments |-> NoEntry]
    /\ refresh = [k \in Environments |-> Idle]

At(c, pc) == call[c].pc = pc

Set(c, state) == call' = [call EXCEPT ![c] = state]

Goto(c, pc) == Set(c, [call[c] EXCEPT !.pc = pc])

ExchangeKey(c) == <<call[c].key, call[c].timeout>>

\* The call will release what it owns and return: the rest of it does not matter.
ToRelease(c) == [NewCall EXCEPT !.pc = "release", !.key = call[c].key,
                                !.timeout = call[c].timeout, !.owner = call[c].owner]

Done == [NewCall EXCEPT !.pc = "done"]

\* The call goes to the server.
ToServer(c) == [ToRelease(c) EXCEPT !.pc = "exchange", !.since = call[c].since,
                                    !.waited = call[c].waited]

-----------------------------------------------------------------------------
(* beginExchange *)

\* newCacheKey reads the environment.
NewCacheKey(state) == [state EXCEPT !.key = env, !.since = moves]

Start(c, pc, async, look) ==
    /\ At(c, "begin")
    /\ \E t \in Timeouts, optimistic \in BOOLEAN :
         Set(c, NewCacheKey([NewCall EXCEPT !.pc = pc, !.timeout = t, !.async = async,
                                            !.look = look, !.optimistic = optimistic]))
    /\ UNCHANGED <<env, moves, lock, cache, refresh>>

\* Exchange or ExchangeAsync
Begin(c) == \E async \in BOOLEAN : Start(c, "lock", async, FALSE)

\* lookupToExchange: questionCache looks at the cache first, without cacheLock.
Lookup(c) == Start(c, "load", FALSE, TRUE)

\* Mutant: a Load and, if there was nothing, a Store.
LoadThenStore(c) ==
    LET k == ExchangeKey(c) IN
    /\ \/ At(c, "lock") /\ lock[k] = NoCall /\ Goto(c, "store") /\ UNCHANGED lock
       \/ /\ At(c, "store")
          /\ lock' = [lock EXCEPT ![k] = c]
          /\ Set(c, [call[c] EXCEPT !.pc = "load", !.owner = TRUE])
       \/ /\ At(c, "lock") /\ lock[k] # NoCall
          /\ Set(c, [call[c] EXCEPT !.pc = "load", !.loaded = TRUE, !.on = lock[k]]) /\ UNCHANGED lock
    /\ UNCHANGED <<env, moves, cache, refresh>>

\* cacheLock.LoadOrStore
LoadOrStore(c) ==
    LET k == ExchangeKey(c) IN
    /\ At(c, "lock")
    /\ IF lock[k] = NoCall
       THEN /\ lock' = [lock EXCEPT ![k] = c]
            /\ Set(c, [call[c] EXCEPT !.pc = "load", !.owner = TRUE])
       ELSE Set(c, [call[c] EXCEPT !.pc = "load", !.loaded = TRUE, !.on = lock[k]]) /\ UNCHANGED lock
    /\ UNCHANGED <<env, moves, cache, refresh>>

\* The cache has no answer that will do.  After questionCache, Exchange begins; a
\* second call waits, unless it must not: then a goroutine calls Exchange.
Missed(c) ==
    IF call[c].look THEN "again"
    ELSE IF ~call[c].loaded THEN "ready"
    ELSE IF call[c].async THEN "again" ELSE "wait"

\* loadResponse: a fresh answer is the result; so is one that has expired lately,
\* and it is refreshed; an older one is removed, in a step of its own.
Load(c) ==
    LET age == cache[call[c].key].age IN
    /\ At(c, "load")
    /\ CASE age = "fresh" -> Set(c, ToRelease(c))
         [] age = "stale" /\ call[c].optimistic -> Goto(c, "refresh")
         [] age = "old" -> Goto(c, "remove")
         [] OTHER -> Goto(c, Missed(c))
    /\ UNCHANGED <<env, moves, lock, cache, refresh>>

\* cache.Remove, whatever is there by now.
Remove(c) ==
    /\ At(c, "remove")
    /\ cache' = [cache EXCEPT ![call[c].key] = NoEntry]
    /\ Goto(c, Missed(c))
    /\ UNCHANGED <<env, moves, lock, refresh>>

\* backgroundRefreshDNS starts a goroutine if the key has none.
StartRefresh(c) ==
    LET k == call[c].key IN
    /\ At(c, "refresh")
    /\ refresh' = IF refresh[k] # Idle THEN refresh
                  ELSE [refresh EXCEPT ![k] = [Idle EXCEPT !.pc = "exchange",
                                                           !.since = call[c].since]]
    /\ Set(c, ToRelease(c))
    /\ UNCHANGED <<env, moves, lock, cache>>

\* lookupToExchange, or the goroutine of ExchangeAsync, calls Exchange.
Again(c) ==
    /\ At(c, "again")
    /\ Set(c, NewCacheKey([call[c] EXCEPT !.pc = "lock", !.loaded = FALSE, !.on = NoCall,
                                          !.async = FALSE, !.look = FALSE]))
    /\ UNCHANGED <<env, moves, lock, cache, refresh>>

\* The channel is closed: one more look at the cache, with a new key, and then
\* an exchange of its own.
Wake(c) ==
    /\ At(c, "wait") /\ call[c].on = NoCall
    /\ Set(c, NewCacheKey([call[c] EXCEPT !.pc = "load", !.loaded = FALSE, !.waited = TRUE]))
    /\ UNCHANGED <<env, moves, lock, cache, refresh>>

\* The context of a call that waits ends.
WaitCancelled(c) ==
    /\ At(c, "wait")
    /\ Set(c, Done)
    /\ UNCHANGED <<env, moves, lock, cache, refresh>>

\* Mutant: who finds the answer to be rejected leaves.
ReadyAnyway(c) ==
    /\ At(c, "ready")
    /\ Set(c, ToServer(c)) \/ Set(c, Done)
    /\ UNCHANGED <<env, moves, lock, cache, refresh>>

\* The end of beginExchange: the query goes to the server, or is a loopback or
\* known to be rejected.
Ready(c) ==
    /\ At(c, "ready")
    /\ Set(c, ToServer(c)) \/ Set(c, ToRelease(c))
    /\ UNCHANGED <<env, moves, lock, cache, refresh>>

-----------------------------------------------------------------------------
(* exchangeToTransport, finishExchange, release *)

\* The transport returns an error, when the context has ended at the latest, or
\* an answer from the network of the moment.
Answer(c) ==
    /\ At(c, "exchange")
    /\ \/ Set(c, ToRelease(c))
       \/ Set(c, [call[c] EXCEPT !.pc = "finish", !.got = env])
    /\ UNCHANGED <<env, moves, lock, cache, refresh>>

\* Mutant: the answer is stored under the key of the question.
StorableAlways(key) == TRUE

\* finishCacheKey; an answer asked for in an unknown environment belongs to the
\* one that is known now.
Storable(key) == env = key \/ key = 0

\* finishExchange: the answer is rejected, has no TTL or its environment has
\* changed, or it will be stored.
Finish(c) ==
    /\ At(c, "finish")
    /\ \/ Set(c, ToRelease(c))
       \/ /\ Storable(call[c].key)
          /\ Set(c, [call[c] EXCEPT !.pc = "store", !.hops = moves - call[c].since,
                        !.to = IF call[c].key = 0 THEN env ELSE call[c].key])
    /\ UNCHANGED <<env, moves, lock, cache, refresh>>

\* storeCache
Store(c) ==
    /\ At(c, "store")
    /\ cache' = [cache EXCEPT ![call[c].to] =
         [age |-> "fresh", got |-> call[c].got, asked |-> call[c].key, hops |-> call[c].hops]]
    /\ Set(c, ToRelease(c))
    /\ UNCHANGED <<env, moves, lock, refresh>>

\* operation.release: the key is deleted and the channel closed, and the call returns.
\* (Who is still waiting when another call has locked the key is just slow to wake.)
Release(c) ==
    /\ At(c, "release")
    /\ lock' = IF call[c].owner THEN [lock EXCEPT ![ExchangeKey(c)] = NoCall] ELSE lock
    /\ call' = [d \in Calls |->
         IF d = c THEN Done
         ELSE IF call[d].on = c THEN [call[d] EXCEPT !.on = NoCall] ELSE call[d]]
    /\ UNCHANGED <<env, moves, cache, refresh>>

-----------------------------------------------------------------------------
(* backgroundRefreshDNS *)

Refresh(k, state) ==
    /\ refresh' = [refresh EXCEPT ![k] = state]
    /\ UNCHANGED <<env, moves, call, lock>>

RefreshAnswer(k) ==
    /\ refresh[k].pc = "exchange"
    /\ \/ Refresh(k, Idle)
       \/ Refresh(k, [refresh[k] EXCEPT !.pc = "finish", !.got = env])
    /\ UNCHANGED cache

RefreshFinish(k) ==
    /\ refresh[k].pc = "finish"
    /\ \/ Refresh(k, Idle)
       \/ /\ Storable(k)
          /\ Refresh(k, [refresh[k] EXCEPT !.pc = "store", !.hops = moves - refresh[k].since,
                            !.to = IF k = 0 THEN env ELSE k])
    /\ UNCHANGED cache

RefreshStore(k) ==
    /\ refresh[k].pc = "store"
    /\ cache' = [cache EXCEPT ![refresh[k].to] =
         [age |-> "fresh", got |-> refresh[k].got, asked |-> k, hops |-> refresh[k].hops]]
    /\ Refresh(k, Idle)

-----------------------------------------------------------------------------
(* The surroundings *)

\* The TTL of an answer runs out, and then the time it is still served.
Expire(k) ==
    /\ cache[k].age \in {"fresh", "stale"}
    /\ \E age \in {"stale", "old"} \ {cache[k].age} : cache' = [cache EXCEPT ![k].age = age]
    /\ UNCHANGED <<env, moves, call, lock, refresh>>

ClearCache ==
    /\ cache' = [k \in Environments |-> NoEntry]
    /\ UNCHANGED <<env, moves, call, lock, refresh>>

\* The host moves to another network, or back.
Move ==
    /\ moves < MaxMoves                                               \* bound
    /\ env' \in Environments \ {env} /\ moves' = moves + 1
    /\ UNCHANGED <<call, lock, cache, refresh>>

\* What a call does by itself; a transport returns by the timeout of its context.
GoesOn(c) ==
    \/ LoadOrStore(c) \/ Load(c) \/ Remove(c) \/ StartRefresh(c) \/ Again(c) \/ Wake(c)
    \/ Ready(c) \/ Answer(c) \/ Finish(c) \/ Store(c) \/ Release(c)

RefreshGoesOn(k) == RefreshAnswer(k) \/ RefreshFinish(k) \/ RefreshStore(k)

Next ==
    \/ \E c \in Calls : Begin(c) \/ Lookup(c) \/ GoesOn(c) \/ WaitCancelled(c)
    \/ \E k \in Environments : RefreshGoesOn(k) \/ Expire(k)
    \/ ClearCache \/ Move

Spec == Init /\ [][Next]_vars

-----------------------------------------------------------------------------
(* Properties *)

\* Equal questions go to the server once: of the calls with one exchange key that
\* have not waited for another one, a single one is under way.  Those that have
\* waited, and found no answer in the cache, all go at once.
OneFlight ==
    \A c, d \in Calls :
      /\ c # d /\ ExchangeKey(c) = ExchangeKey(d)
      /\ {call[c].pc, call[d].pc} \subseteq {"ready", "exchange", "finish", "store"}
      => call[c].waited \/ call[d].waited

\* Nobody waits for a channel that no one will close, and no key stays locked: the
\* one that made the channel is under way, does not wait itself, and still has the
\* key to release, whatever becomes of it (an answer in the cache, a loopback, a
\* rejected or failed query, a change of the network).
NobodyForgotten ==
    /\ \A k \in Environments \X Timeouts :
         lock[k] # NoCall => call[lock[k]].owner /\ ExchangeKey(lock[k]) = k
    /\ \A c \in Calls :
         /\ call[c].on # NoCall => call[call[c].on].owner
         /\ call[c].owner => call[c].pc \notin {"again", "wait", "done"}

\* What the cache has for a network came from that network, though the network may
\* change at any time between the question, the answer and the store.  A host that
\* left during the exchange and is back is the exception, and so is an answer
\* that was asked for when the network was not known.
AnswerFitsNetwork ==
    \A k \in Environments :
      cache[k].age # "none" /\ cache[k].got # k => cache[k].hops > 1 \/ cache[k].asked = 0
=============================================================================
