-------------------------- MODULE DnsClientProofs ---------------------------
(***************************************************************************)
(* The proofs about the DNS client: DnsClient, and two parts of the way    *)
(* a query takes, SequentialExchange and ReuseProbe.                       *)
(***************************************************************************)
EXTENDS DnsClient, SequentialExchange, ReuseProbe, Integers, TLAPS

-----------------------------------------------------------------------------
(***************************************************************************)
(* DnsClient for any number of calls, networks, timeouts and changes of    *)
(* the network.  LockInv says what a call may be doing while it owns or    *)
(* waits for a channel; NetInv how a key and the moves since it was read   *)
(* tell whether the answer is of the key's network.                        *)
(***************************************************************************)

Fields == {"pc", "key", "since", "timeout", "owner", "loaded", "on", "waited", "async", "look",
           "optimistic", "got", "to", "hops"}

WellFormed(r) ==
    /\ DOMAIN r = Fields
    /\ r.key \in Environments /\ r.to \in Environments /\ r.on \in Calls \union {NoCall}
    /\ r.since \in Nat /\ r.hops \in Int

Typed ==
    /\ env \in Environments /\ moves \in Nat
    /\ DOMAIN call = Calls /\ \A c \in Calls : WellFormed(call[c])
    /\ lock \in [Environments \X Timeouts -> Calls \union {NoCall}]

InFlight == {"ready", "exchange", "finish", "store"}

\* A call that owns a channel is on the way to release it, and one that is on the
\* way to the server owns its channel or has waited for one.
Local(r) ==
    /\ r.owner => /\ r.pc \in InFlight \union {"load", "remove", "refresh", "release"}
                  /\ ~r.loaded /\ ~r.look /\ r.timeout \in Timeouts
    /\ r.pc \notin {"begin", "release", "done"} => r.timeout \in Timeouts
    /\ r.pc = "lock" => ~r.loaded /\ ~r.look
    /\ r.pc \in InFlight => r.owner \/ r.waited
    /\ r.pc \in {"load", "remove"} => r.owner \/ r.loaded \/ r.look \/ r.waited

LockInv ==
    /\ \A k \in Environments \X Timeouts :
         lock[k] # NoCall => call[lock[k]].owner /\ ExchangeKey(lock[k]) = k
    /\ \A c \in Calls : /\ Local(call[c])
                        /\ call[c].owner => lock[ExchangeKey(c)] = c
                        /\ call[c].on # NoCall => call[call[c].on].owner

-----------------------------------------------------------------------------
\* A new call has its fields.
LEMMA NewCallFormed == WellFormed(NewCall) /\ Local(NewCall)
  BY ClientAssumption DEF NewCall, WellFormed, Local, Fields, InFlight

\* A client without calls satisfies the invariant.
LEMMA InitLock == Init => Typed /\ LockInv
<1> SUFFICES ASSUME Init PROVE Typed /\ LockInv
  OBVIOUS
<1>1. Typed
  BY NewCallFormed DEF Init, Typed
<1>2. LockInv
  BY NewCallFormed DEF Init, LockInv, NewCall
<1> QED BY <1>1, <1>2

\* A step of one call keeps the invariant when it touches neither cacheLock nor
\* what the call owns.
LEMMA LocalStep ==
    ASSUME Typed, LockInv, NEW c \in Calls, NEW s, Set(c, s), UNCHANGED <<env, moves, lock>>,
           WellFormed(s), Local(s), s.owner <=> call[c].owner, s.on # NoCall => call[s.on].owner,
           s.owner => s.key = call[c].key /\ s.timeout = call[c].timeout
    PROVE  Typed' /\ LockInv'
<1>1. /\ DOMAIN call' = Calls /\ call'[c] = s
      /\ \A d \in Calls \ {c} : call'[d] = call[d]
  BY DEF Set, Typed
<1>2. Typed'
  BY <1>1 DEF Typed, WellFormed
<1>3. ASSUME NEW k \in Environments \X Timeouts, lock[k] # NoCall
      PROVE  call'[lock[k]].owner /\ ExchangeKey(lock[k])' = k
  BY <1>1, <1>3 DEF Typed, LockInv, ExchangeKey
<1>4. ASSUME NEW d \in Calls
      PROVE  /\ Local(call'[d])
             /\ call'[d].owner => lock[ExchangeKey(d)'] = d
             /\ call'[d].on # NoCall => call'[call'[d].on].owner
  <2>1. Local(call'[d])
    BY <1>1 DEF LockInv
  <2>2. call'[d].owner => lock[ExchangeKey(d)'] = d
    BY <1>1 DEF LockInv, ExchangeKey
  <2>3. call'[d].on # NoCall => call'[call'[d].on].owner
    BY <1>1 DEF LockInv, Typed, WellFormed
  <2> QED BY <2>1, <2>2, <2>3
<1> QED BY <1>2, <1>3, <1>4 DEF LockInv

\* The next states of a call that goes to the server or returns.
LEMMA NextStates ==
    ASSUME Typed, NEW c \in Calls
    PROVE  /\ WellFormed(ToRelease(c)) /\ WellFormed(ToServer(c)) /\ WellFormed(Done)
           /\ ToRelease(c).pc = "release" /\ ToServer(c).pc = "exchange" /\ Done.pc = "done"
           /\ \A s \in {ToRelease(c), ToServer(c)} :
                /\ s.key = call[c].key /\ s.timeout = call[c].timeout /\ s.on = NoCall
                /\ s.owner = call[c].owner /\ ~s.loaded /\ ~s.look
           /\ ToServer(c).waited = call[c].waited /\ ToServer(c).since = call[c].since
           /\ Done.on = NoCall /\ ~Done.owner
<1>1. LET s == ToRelease(c) IN
        /\ WellFormed(s) /\ s.pc = "release" /\ s.key = call[c].key /\ s.timeout = call[c].timeout
        /\ s.on = NoCall /\ s.owner = call[c].owner /\ ~s.loaded /\ ~s.look
  BY NewCallFormed DEF ToRelease, NewCall, WellFormed, Typed, Fields
<1>2. LET s == ToServer(c) IN
        /\ WellFormed(s) /\ s.pc = "exchange" /\ s.key = ToRelease(c).key
        /\ s.timeout = ToRelease(c).timeout /\ s.on = ToRelease(c).on
        /\ s.owner = ToRelease(c).owner /\ s.loaded = ToRelease(c).loaded
        /\ s.look = ToRelease(c).look /\ s.waited = call[c].waited /\ s.since = call[c].since
  BY <1>1 DEF ToServer, WellFormed, Typed, Fields
<1>3. WellFormed(Done) /\ Done.pc = "done" /\ Done.on = NoCall /\ ~Done.owner
  BY NewCallFormed DEF Done, NewCall, WellFormed, Fields
<1> QED BY <1>1, <1>2, <1>3

\* LoadOrStore makes the channel of its key or finds who made it.
LEMMA LoadOrStoreLock ==
    ASSUME Typed, LockInv, NEW c \in Calls, LoadOrStore(c) PROVE Typed' /\ LockInv'
<1> DEFINE k == ExchangeKey(c)
<1>1. /\ call[c].pc = "lock" /\ ~call[c].owner /\ ~call[c].loaded /\ ~call[c].look
      /\ k \in Environments \X Timeouts /\ call[c].timeout \in Timeouts
      /\ WellFormed(call[c])
  BY DEF LoadOrStore, At, LockInv, Local, InFlight, Typed, WellFormed, ExchangeKey
<1>2. CASE lock[k] = NoCall
  <2> DEFINE s == [call[c] EXCEPT !.pc = "load", !.owner = TRUE]
  <2>1. /\ DOMAIN call' = Calls /\ call'[c] = s /\ lock' = [lock EXCEPT ![k] = c]
        /\ \A d \in Calls \ {c} : call'[d] = call[d]
        /\ UNCHANGED <<env, moves>>
    BY <1>2 DEF LoadOrStore, Set, Typed
  <2>2. /\ s.pc = "load" /\ s.owner /\ s.key = call[c].key /\ s.timeout = call[c].timeout
        /\ s.on = call[c].on /\ s.loaded = call[c].loaded /\ s.look = call[c].look
        /\ WellFormed(s)
    BY <1>1 DEF WellFormed, Fields
  <2> HIDE DEF s
  <2>3. Typed'
    BY <1>1, <2>1, <2>2 DEF Typed
  <2>4. lock'[k] = c /\ \A j \in Environments \X Timeouts : j # k => lock'[j] = lock[j]
    BY <1>1, <2>1 DEF Typed
  <2>5. ExchangeKey(c)' = k /\ \A d \in Calls \ {c} : ExchangeKey(d)' = ExchangeKey(d)
    BY <2>1, <2>2 DEF ExchangeKey
  <2>6. \A d \in Calls \ {c} : call[d].owner => ExchangeKey(d) \in Environments \X Timeouts
    BY DEF LockInv, Local, Typed, WellFormed, ExchangeKey
  <2> HIDE DEF k
  <2>7. ASSUME NEW j \in Environments \X Timeouts, lock'[j] # NoCall
        PROVE  call'[lock'[j]].owner /\ ExchangeKey(lock[j])' = j
    <3>1. CASE j = k
      BY <2>1, <2>2, <2>4, <2>5, <3>1 DEF ExchangeKey
    <3>2. CASE j # k
      <4>1. lock'[j] = lock[j] /\ lock[j] \in Calls /\ call[lock[j]].owner
            /\ ExchangeKey(lock[j]) = j /\ lock[j] # c
        BY <1>1, <2>4, <2>7, <3>2 DEF LockInv, Typed
      <4>2. ExchangeKey(lock[j])' = j
        BY <4>1, <2>1 DEF ExchangeKey
      <4> QED BY <4>1, <4>2, <2>1
    <3> QED BY <3>1, <3>2
  <2>8. ASSUME NEW d \in Calls
        PROVE  /\ Local(call'[d])
               /\ call'[d].owner => lock'[ExchangeKey(d)'] = d
               /\ call'[d].on # NoCall => call'[call'[d].on].owner
    <3>1. Local(call'[d])
      BY <1>1, <2>1, <2>2 DEF LockInv, Local, InFlight
    <3>2. call'[d].owner => lock'[ExchangeKey(d)'] = d
      BY <1>1, <1>2, <2>1, <2>4, <2>5, <2>6, ClientAssumption DEF LockInv
    <3>3. call'[d].on # NoCall => call'[call'[d].on].owner
      BY <2>1, <2>2 DEF LockInv, Typed, WellFormed
    <3> QED BY <3>1, <3>2, <3>3
  <2> QED BY <2>3, <2>7, <2>8 DEF LockInv
<1>3. CASE lock[k] # NoCall
  <2> DEFINE s == [call[c] EXCEPT !.pc = "load", !.loaded = TRUE, !.on = lock[k]]
  <2>1. Set(c, s) /\ UNCHANGED <<env, moves, lock>>
    BY <1>3 DEF LoadOrStore
  <2>2. s.pc = "load" /\ s.owner = call[c].owner /\ s.loaded /\ s.on = lock[k]
        /\ s.timeout = call[c].timeout /\ s.key = call[c].key
        /\ s.to = call[c].to /\ s.since = call[c].since /\ s.hops = call[c].hops
        /\ DOMAIN s = Fields
    BY <1>1 DEF WellFormed, Fields
  <2> HIDE DEF s
  <2>3. lock[k] \in Calls /\ call[lock[k]].owner
    BY <1>1, <1>3 DEF LockInv, Typed
  <2> HIDE DEF k
  <2>4. WellFormed(s) /\ Local(s)
    BY <1>1, <2>2, <2>3 DEF WellFormed, Local, InFlight
  <2> QED BY <1>1, <2>1, <2>2, <2>3, <2>4, LocalStep
<1> QED BY <1>2, <1>3

\* release gives the key back and wakes whoever waits for the channel.
LEMMA ReleaseLock ==
    ASSUME Typed, LockInv, NEW c \in Calls, Release(c) PROVE Typed' /\ LockInv'
<1> DEFINE woken(d) == [call[d] EXCEPT !.on = NoCall]
<1>1. /\ DOMAIN call' = Calls /\ call'[c] = Done
      /\ \A d \in Calls \ {c} : call'[d] = IF call[d].on = c THEN woken(d) ELSE call[d]
      /\ UNCHANGED <<env, moves>>
  BY DEF Release
<1>2. \A d \in Calls : /\ WellFormed(woken(d)) /\ woken(d).on = NoCall
                       /\ woken(d).owner = call[d].owner /\ woken(d).key = call[d].key
                       /\ woken(d).timeout = call[d].timeout /\ woken(d).pc = call[d].pc
                       /\ woken(d).loaded = call[d].loaded /\ woken(d).look = call[d].look
                       /\ woken(d).waited = call[d].waited
  BY DEF Typed, WellFormed, Fields
<1> HIDE DEF woken
<1>3. \A d \in Calls \ {c} :
        /\ WellFormed(call'[d]) /\ Local(call'[d]) /\ ExchangeKey(d)' = ExchangeKey(d)
        /\ call'[d].owner = call[d].owner /\ call'[d].on # c
        /\ call'[d].on \in {NoCall, call[d].on}
  <2> SUFFICES ASSUME NEW d \in Calls \ {c}
               PROVE  /\ WellFormed(call'[d]) /\ Local(call'[d])
                      /\ ExchangeKey(d)' = ExchangeKey(d)
                      /\ call'[d].owner = call[d].owner /\ call'[d].on # c
                      /\ call'[d].on \in {NoCall, call[d].on}
    OBVIOUS
  <2>1. CASE call[d].on = c
    <3>1. call'[d] = woken(d)
      BY <1>1, <2>1
    <3>2. Local(call[d])
      BY DEF LockInv
    <3>3. Local(woken(d))
      BY <1>2, <3>2 DEF Local
    <3> QED BY <1>2, <3>1, <3>3, ClientAssumption DEF ExchangeKey
  <2>2. CASE call[d].on # c
    <3>1. call'[d] = call[d]
      BY <1>1, <2>2
    <3> QED BY <2>2, <3>1, Zenon DEF Typed, LockInv, ExchangeKey
  <2> QED BY <2>1, <2>2
<1>4. WellFormed(Done) /\ Local(Done) /\ ~Done.owner /\ Done.on = NoCall
  BY NextStates, Zenon DEF Local, Done, NewCall, InFlight
<1>5. lock' \in [Environments \X Timeouts -> Calls \union {NoCall}]
  BY Zenon DEF Release, Typed
<1>6. \A j \in Environments \X Timeouts :
        lock'[j] = IF call[c].owner /\ j = ExchangeKey(c) THEN NoCall ELSE lock[j]
  BY DEF Release, Typed
<1>7. \A d \in Calls : call[d].owner => ExchangeKey(d) \in Environments \X Timeouts
  BY DEF LockInv, Local, Typed, WellFormed, ExchangeKey
<1>8. Typed'
  BY <1>1, <1>3, <1>4, <1>5 DEF Typed
<1>9. ASSUME NEW j \in Environments \X Timeouts, lock'[j] # NoCall
      PROVE  call'[lock'[j]].owner /\ ExchangeKey(lock[j])' = j
  <2>1. lock'[j] = lock[j] /\ lock[j] \in Calls \ {c} /\ call[lock[j]].owner
        /\ ExchangeKey(lock[j]) = j
    BY <1>6, <1>9 DEF LockInv, Typed
  <2>2. ExchangeKey(lock[j])' = j
    BY <1>1, <1>2, <2>1 DEF ExchangeKey
  <2> QED BY <1>3, <2>1, <2>2
<1>10. ASSUME NEW d \in Calls
       PROVE  /\ Local(call'[d])
              /\ call'[d].owner => lock'[ExchangeKey(d)'] = d
              /\ call'[d].on # NoCall => call'[call'[d].on].owner
  <2>1. Local(call'[d])
    BY <1>1, <1>3, <1>4
  <2>2. call'[d].owner => lock'[ExchangeKey(d)'] = d
    BY <1>1, <1>3, <1>4, <1>6, <1>7 DEF LockInv
  <2>3. call'[d].on # NoCall => call'[call'[d].on].owner
    BY <1>1, <1>3, <1>4 DEF LockInv, Typed, WellFormed
  <2> QED BY <2>1, <2>2, <2>3
<1> QED BY <1>8, <1>9, <1>10 DEF LockInv

\* The other steps of a call.
LEMMA CallLock ==
    ASSUME Typed, LockInv, NEW c \in Calls,
           \/ Begin(c) \/ Lookup(c) \/ WaitCancelled(c) \/ Load(c) \/ Remove(c)
           \/ StartRefresh(c) \/ Again(c) \/ Wake(c) \/ Ready(c) \/ Answer(c) \/ Finish(c)
           \/ Store(c)
    PROVE  Typed' /\ LockInv'
<1> DEFINE r == call[c]
<1>1. /\ WellFormed(r) /\ Local(r) /\ (r.on # NoCall => call[r.on].owner)
      /\ DOMAIN r = Fields /\ env \in Environments /\ moves \in Nat
  BY DEF Typed, LockInv, WellFormed
<1>2. ASSUME NEW s, Set(c, s), UNCHANGED <<env, moves, lock>>, WellFormed(s), Local(s),
             s.owner <=> r.owner, s.on \in {NoCall, r.on},
             s.owner => s.key = r.key /\ s.timeout = r.timeout
      PROVE  Typed' /\ LockInv'
  BY <1>1, <1>2, LocalStep
<1>3. \A p : LET s == [r EXCEPT !.pc = p] IN
        /\ WellFormed(s) /\ s.pc = p /\ s.owner = r.owner /\ s.on = r.on /\ s.key = r.key
        /\ s.timeout = r.timeout /\ s.loaded = r.loaded /\ s.look = r.look
        /\ s.waited = r.waited
  BY <1>1 DEF WellFormed, Fields
<1>4. ASSUME NEW p, Goto(c, p), UNCHANGED <<env, moves, lock>>, Local([r EXCEPT !.pc = p])
      PROVE  Typed' /\ LockInv'
  BY <1>2, <1>3, <1>4, Zenon DEF Goto
<1>5. Set(c, ToRelease(c)) /\ UNCHANGED <<env, moves, lock>> => Typed' /\ LockInv'
  <2>1. ToRelease(c).owner => r.timeout \in Timeouts
    BY <1>1, NextStates DEF Local
  <2>2. Local(ToRelease(c))
    BY <2>1, NextStates DEF Local, InFlight
  <2> QED BY <1>2, <2>2, NextStates
<1>6. CASE Begin(c) \/ Lookup(c)
  <2>1. PICK pc \in {"lock", "load"}, t \in Timeouts, a, l, o \in BOOLEAN :
          /\ At(c, "begin") /\ (l <=> pc = "load")
          /\ Set(c, NewCacheKey([NewCall EXCEPT !.pc = pc, !.timeout = t, !.async = a,
                                                !.look = l, !.optimistic = o]))
          /\ UNCHANGED <<env, moves, lock>>
    BY <1>6, Zenon DEF Begin, Lookup, Start
  <2> DEFINE s == NewCacheKey([NewCall EXCEPT !.pc = pc, !.timeout = t, !.async = a,
                                              !.look = l, !.optimistic = o])
  <2>2. /\ WellFormed(s) /\ s.pc = pc /\ s.timeout = t /\ s.look = l /\ ~s.owner /\ ~s.loaded
        /\ s.on = NoCall
    BY <1>1, NewCallFormed, Zenon DEF NewCacheKey, NewCall, WellFormed, Fields
  <2>3. ~r.owner
    BY <1>1, <2>1 DEF Local, At, InFlight
  <2>4. Set(c, s)
    BY <2>1
  <2> HIDE DEF s
  <2>5. Local(s)
    BY <2>1, <2>2 DEF Local, InFlight
  <2> QED BY <1>2, <2>1, <2>2, <2>3, <2>4, <2>5
<1>7. ASSUME r.pc \in {"load", "remove"}, Goto(c, Missed(c)), UNCHANGED <<env, moves, lock>>
      PROVE  Typed' /\ LockInv'
  <2> DEFINE p == Missed(c)
  <2>1. /\ p \in {"again", "ready", "wait"}
        /\ r.owner => p = "ready"
        /\ p = "ready" => r.owner \/ r.waited
        /\ r.timeout \in Timeouts
    BY <1>1, <1>7 DEF Missed, Local
  <2> HIDE DEF p
  <2>2. Local([r EXCEPT !.pc = p])
    BY <1>1, <1>3, <2>1 DEF Local, InFlight
  <2> QED BY <1>4, <1>7, <2>2 DEF p
<1>8. CASE Load(c)
  <2>1. r.pc = "load" /\ UNCHANGED <<env, moves, lock>>
    BY <1>8 DEF Load, At
  <2>2. Set(c, ToRelease(c)) \/ Goto(c, "refresh") \/ Goto(c, "remove") \/ Goto(c, Missed(c))
    BY <1>8 DEF Load
  <2>3. \A p \in {"refresh", "remove"} : Local([r EXCEPT !.pc = p])
    BY <1>1, <1>3, <2>1 DEF Local, InFlight
  <2> QED BY <1>4, <1>5, <1>7, <2>1, <2>2, <2>3
<1>9. CASE Remove(c)
  BY <1>7, <1>9 DEF Remove, At
<1>10. CASE StartRefresh(c) \/ Store(c)
  BY <1>5, <1>10 DEF StartRefresh, Store
<1>11. CASE Again(c)
  <2> DEFINE s == NewCacheKey([call[c] EXCEPT !.pc = "lock", !.loaded = FALSE, !.on = NoCall,
                                              !.async = FALSE, !.look = FALSE])
  <2>1. Set(c, s) /\ r.pc = "again" /\ UNCHANGED <<env, moves, lock>>
    BY <1>11 DEF Again, At
  <2>2. /\ WellFormed(s) /\ s.pc = "lock" /\ s.owner = r.owner /\ s.on = NoCall
        /\ ~s.loaded /\ ~s.look /\ s.timeout = r.timeout
    BY <1>1 DEF NewCacheKey, WellFormed, Fields
  <2> HIDE DEF s
  <2>3. ~r.owner /\ r.timeout \in Timeouts
    BY <1>1, <2>1 DEF Local, InFlight
  <2>4. Local(s)
    BY <2>2, <2>3 DEF Local, InFlight
  <2> QED BY <1>2, <2>1, <2>2, <2>3, <2>4
<1>12. CASE Wake(c)
  <2> DEFINE s == NewCacheKey([call[c] EXCEPT !.pc = "load", !.loaded = FALSE, !.waited = TRUE])
  <2>1. Set(c, s) /\ r.pc = "wait" /\ UNCHANGED <<env, moves, lock>>
    BY <1>12 DEF Wake, At
  <2>2. /\ WellFormed(s) /\ s.pc = "load" /\ s.owner = r.owner /\ s.on = r.on /\ s.waited
        /\ s.timeout = r.timeout
    BY <1>1 DEF NewCacheKey, WellFormed, Fields
  <2> HIDE DEF s
  <2>3. ~r.owner /\ r.timeout \in Timeouts
    BY <1>1, <2>1 DEF Local, InFlight
  <2>4. Local(s)
    BY <2>2, <2>3 DEF Local, InFlight
  <2> QED BY <1>2, <2>1, <2>2, <2>3, <2>4
<1>13. CASE WaitCancelled(c)
  <2>1. Set(c, Done) /\ r.pc = "wait" /\ UNCHANGED <<env, moves, lock>>
    BY <1>13 DEF WaitCancelled, At
  <2>2. ~r.owner
    BY <1>1, <2>1 DEF Local, InFlight
  <2>3. Local(Done)
    BY NextStates DEF Local, InFlight, Done, NewCall
  <2> QED BY <1>2, <2>1, <2>2, <2>3, NextStates
<1>14. CASE Ready(c)
  <2>1. /\ Set(c, ToServer(c)) \/ Set(c, ToRelease(c))
        /\ r.pc = "ready" /\ UNCHANGED <<env, moves, lock>>
    BY <1>14 DEF Ready, At
  <2>2. r.timeout \in Timeouts /\ (r.owner \/ r.waited)
    BY <1>1, <2>1 DEF Local, InFlight
  <2>3. Local(ToServer(c))
    BY <2>2, NextStates DEF Local, InFlight
  <2> QED BY <1>2, <1>5, <2>1, <2>3, NextStates
<1>15. CASE Answer(c)
  <2> DEFINE s == [call[c] EXCEPT !.pc = "finish", !.got = env]
  <2>1. /\ Set(c, ToRelease(c)) \/ Set(c, s)
        /\ r.pc = "exchange" /\ UNCHANGED <<env, moves, lock>>
    BY <1>15 DEF Answer, At
  <2>2. /\ WellFormed(s) /\ s.pc = "finish" /\ s.owner = r.owner /\ s.on = r.on
        /\ s.waited = r.waited /\ s.timeout = r.timeout /\ s.key = r.key
        /\ s.loaded = r.loaded /\ s.look = r.look
    BY <1>1 DEF WellFormed, Fields
  <2> HIDE DEF s
  <2>3. Local(s)
    BY <1>1, <2>1, <2>2 DEF Local, InFlight
  <2> QED BY <1>2, <1>5, <2>1, <2>2, <2>3
<1>16. CASE Finish(c)
  <2> DEFINE s == [call[c] EXCEPT !.pc = "store", !.hops = moves - call[c].since,
                                  !.to = IF call[c].key = 0 THEN env ELSE call[c].key]
  <2>1. /\ Set(c, ToRelease(c)) \/ Set(c, s)
        /\ r.pc = "finish" /\ UNCHANGED <<env, moves, lock>>
    BY <1>16 DEF Finish, At
  <2>2. /\ WellFormed(s) /\ s.pc = "store" /\ s.owner = r.owner /\ s.on = r.on
        /\ s.waited = r.waited /\ s.timeout = r.timeout /\ s.key = r.key
        /\ s.loaded = r.loaded /\ s.look = r.look
    BY <1>1 DEF WellFormed, Fields
  <2> HIDE DEF s
  <2>3. Local(s)
    BY <1>1, <2>1, <2>2 DEF Local, InFlight
  <2> QED BY <1>2, <1>5, <2>1, <2>2, <2>3
<1> QED BY <1>6, <1>8, <1>9, <1>10, <1>11, <1>12, <1>13, <1>14, <1>15, <1>16

\* Every step keeps the types and LockInv.
LEMMA StepLock == Typed /\ LockInv /\ [Next]_vars => Typed' /\ LockInv'
<1> SUFFICES ASSUME Typed, LockInv, [Next]_vars PROVE Typed' /\ LockInv'
  OBVIOUS
<1>1. ASSUME NEW c \in Calls, Begin(c) \/ Lookup(c) \/ GoesOn(c) \/ WaitCancelled(c)
      PROVE  Typed' /\ LockInv'
  BY <1>1, LoadOrStoreLock, ReleaseLock, CallLock DEF GoesOn
<1>2. ASSUME UNCHANGED <<call, lock>>, env' \in Environments, moves' \in Nat
      PROVE  Typed' /\ LockInv'
  BY <1>2 DEF Typed, LockInv, ExchangeKey
<1>3. ASSUME NEW k \in Environments, RefreshGoesOn(k) \/ Expire(k) PROVE Typed' /\ LockInv'
  BY <1>2, <1>3 DEF Typed, RefreshGoesOn, RefreshAnswer, RefreshFinish, RefreshStore, Refresh,
                    Expire
<1>4. CASE ClearCache \/ Move \/ UNCHANGED vars
  BY <1>2, <1>4 DEF Typed, ClearCache, Move, vars
<1> QED BY <1>1, <1>3, <1>4 DEF Next

\* NobodyForgotten for every number of calls: a channel in cacheLock has an owner
\* that will release it, whichever way beginExchange and the exchange end.
THEOREM NoneForgotten == Spec => []NobodyForgotten
<1>1. Typed /\ LockInv => NobodyForgotten
  <2> SUFFICES ASSUME Typed, LockInv PROVE NobodyForgotten
    OBVIOUS
  <2>1. \A c \in Calls : call[c].owner => call[c].pc \notin {"again", "wait", "done"}
    BY DEF LockInv, Local, InFlight
  <2> QED BY <2>1 DEF LockInv, NobodyForgotten
<1> QED BY <1>1, InitLock, StepLock, PTL DEF Spec

\* OneFlight for every number of calls: of the equal questions that have not waited
\* one is under way, because it owns the channel of the key.
THEOREM FlightsShared == Spec => []OneFlight
<1>1. Typed /\ LockInv => OneFlight
  <2> SUFFICES ASSUME Typed, LockInv, NEW c \in Calls, NEW d \in Calls,
                      ExchangeKey(c) = ExchangeKey(d), call[c].pc \in InFlight,
                      call[d].pc \in InFlight, ~call[c].waited, ~call[d].waited
               PROVE  c = d
    BY DEF OneFlight, InFlight
  <2>1. call[c].owner /\ call[d].owner
    BY DEF LockInv, Local
  <2> QED BY <2>1 DEF LockInv
<1> QED BY <1>1, InitLock, StepLock, PTL DEF Spec

-----------------------------------------------------------------------------
(* Answers and networks *)

\* A key was read in the environment it names, since moves ago: if the host has
\* not moved it is still there, and if it has moved once it is not.
Tracks(key, since) ==
    /\ since \in Nat /\ since <= moves
    /\ moves = since => env = key
    /\ moves = since + 1 => env # key

\* Who is at finish has an answer of its key's network unless the host moved; what
\* is stored is then of the network it is stored for.
Sound(r, key) ==
    /\ r.pc \in {"lock", "load", "remove", "refresh", "again", "wait", "ready", "exchange",
                 "finish"} => Tracks(key, r.since)
    /\ r.pc = "finish" /\ moves = r.since => r.got = key
    /\ r.pc = "store" => /\ r.to \in Environments
                         /\ r.got # r.to => r.hops > 1 \/ key = 0

NetInv ==
    /\ DOMAIN cache = Environments /\ DOMAIN refresh = Environments
    /\ \A k \in Environments : /\ DOMAIN cache[k] = DOMAIN NoEntry
                               /\ DOMAIN refresh[k] = DOMAIN Idle
                               /\ Sound(refresh[k], k)
    /\ \A c \in Calls : Sound(call[c], call[c].key)
    /\ AnswerFitsNetwork

\* A client without calls satisfies it.
LEMMA InitNet == Init => NetInv
  BY DEF Init, NetInv, Sound, AnswerFitsNetwork, NoEntry, Idle, NewCall

\* A step of one call that leaves the cache and the refreshes alone.
LEMMA SoundStep ==
    ASSUME Typed, NetInv, NEW c \in Calls, NEW s, Set(c, s), Sound(s, s.key),
           UNCHANGED <<env, moves, cache, refresh>>
    PROVE  NetInv'
<1>1. /\ call'[c] = s
      /\ \A d \in Calls \ {c} : call'[d] = call[d]
  BY DEF Set, Typed
<1>2. \A d \in Calls : Sound(call'[d], call'[d].key)
  BY <1>1 DEF NetInv
<1> QED BY <1>2 DEF NetInv, Sound, Tracks, AnswerFitsNetwork

\* What a call may store, by finishCacheKey: if its environment was known, it is the
\* one of now, so the host has not moved once; it has not moved at all, and the
\* answer came from there, or it has moved and come back.
LEMMA StorableFits ==
    ASSUME NEW r, NEW key \in Environments, r.pc = "finish", Sound(r, key), Storable(key),
           env \in Environments, moves \in Nat, NEW to, to = IF key = 0 THEN env ELSE key,
           NEW hops, hops = moves - r.since
    PROVE  to \in Environments /\ (r.got # to => hops > 1 \/ key = 0)
  BY DEF Sound, Tracks, Storable

\* The steps of a call that leave the cache and the refreshes alone.
LEMMA CallNet ==
    ASSUME Typed, NetInv, NEW c \in Calls,
           \/ Begin(c) \/ Lookup(c) \/ WaitCancelled(c) \/ LoadOrStore(c) \/ Load(c) \/ Again(c)
           \/ Wake(c) \/ Ready(c) \/ Answer(c) \/ Finish(c)
    PROVE  NetInv'
<1> DEFINE r == call[c]
           Before == {"lock", "load", "remove", "refresh", "again", "wait", "ready", "exchange"}
<1>1. /\ WellFormed(r) /\ Sound(r, r.key) /\ DOMAIN r = Fields
      /\ env \in Environments /\ moves \in Nat
  BY DEF Typed, NetInv, WellFormed
<1>2. UNCHANGED <<env, moves, cache, refresh>>
  BY Zenon DEF Begin, Lookup, Start, WaitCancelled, LoadOrStore, Load, Again, Wake, Ready, Answer, Finish
<1>3. ASSUME NEW s, Set(c, s), s.pc \in Before, r.pc \in Before, s.key = r.key, s.since = r.since
      PROVE  NetInv'
  <2>1. Sound(s, s.key)
    BY <1>1, <1>3 DEF Sound
  <2> QED BY <1>2, <1>3, <2>1, SoundStep
<1>4. ASSUME NEW s, Set(c, s), s.pc \in Before, s.key = env, s.since = moves PROVE NetInv'
  <2>1. Sound(s, s.key)
    BY <1>1, <1>4 DEF Sound, Tracks
  <2> QED BY <1>2, <1>4, <2>1, SoundStep
<1>5. ASSUME NEW s, Set(c, s), s.pc \in {"release", "done"} PROVE NetInv'
  <2>1. Sound(s, s.key)
    BY <1>5 DEF Sound
  <2> QED BY <1>2, <1>5, <2>1, SoundStep
<1>6. ASSUME NEW p \in Before, r.pc \in Before, Goto(c, p) PROVE NetInv'
  <2>1. LET s == [r EXCEPT !.pc = p] IN s.pc = p /\ s.key = r.key /\ s.since = r.since
    BY <1>1 DEF Fields
  <2> QED BY <1>3, <1>6, <2>1, Zenon DEF Goto
<1>7. CASE Begin(c) \/ Lookup(c)
  <2>1. PICK pc \in {"lock", "load"}, t \in Timeouts, a, l, o \in BOOLEAN :
          Set(c, NewCacheKey([NewCall EXCEPT !.pc = pc, !.timeout = t, !.async = a,
                                             !.look = l, !.optimistic = o]))
    BY <1>7, Zenon DEF Begin, Lookup, Start
  <2>2. LET s == NewCacheKey([NewCall EXCEPT !.pc = pc, !.timeout = t, !.async = a,
                                             !.look = l, !.optimistic = o])
        IN  s.pc = pc /\ s.key = env /\ s.since = moves
    BY DEF NewCacheKey, NewCall
  <2> QED BY <1>4, <2>1, <2>2
<1>8. CASE WaitCancelled(c)
  BY <1>5, <1>8, NextStates DEF WaitCancelled
<1>9. CASE LoadOrStore(c)
  <2>1. PICK s \in {[r EXCEPT !.pc = "load", !.owner = TRUE],
                    [r EXCEPT !.pc = "load", !.loaded = TRUE, !.on = lock[ExchangeKey(c)]]} :
          Set(c, s)
    BY <1>9 DEF LoadOrStore
  <2>2. s.pc = "load" /\ s.key = r.key /\ s.since = r.since
    BY <1>1, <2>1, Zenon DEF Fields
  <2>3. r.pc = "lock"
    BY <1>9 DEF LoadOrStore, At
  <2> QED BY <1>3, <2>1, <2>2, <2>3
<1>10. CASE Load(c)
  <2>1. /\ r.pc = "load"
        /\ Set(c, ToRelease(c)) \/ \E p \in {"refresh", "remove", Missed(c)} : Goto(c, p)
    BY <1>10 DEF Load, At
  <2>2. Missed(c) \in Before
    BY DEF Missed
  <2>3. ASSUME NEW p \in {"refresh", "remove", Missed(c)}, Goto(c, p) PROVE NetInv'
    BY <1>6, <2>1, <2>2, <2>3
  <2> QED BY <1>5, <2>1, <2>3, NextStates
<1>11. CASE Again(c)
  <2>1. LET s == NewCacheKey([call[c] EXCEPT !.pc = "lock", !.loaded = FALSE, !.on = NoCall,
                                             !.async = FALSE, !.look = FALSE])
        IN  Set(c, s) /\ s.pc = "lock" /\ s.key = env /\ s.since = moves
    BY <1>1, <1>11 DEF Again, NewCacheKey, Fields
  <2> QED BY <1>4, <2>1
<1>12. CASE Wake(c)
  <2>1. LET s == NewCacheKey([call[c] EXCEPT !.pc = "load", !.loaded = FALSE, !.waited = TRUE])
        IN  Set(c, s) /\ s.pc = "load" /\ s.key = env /\ s.since = moves
    BY <1>1, <1>12 DEF Wake, NewCacheKey, Fields
  <2> QED BY <1>4, <2>1
<1>13. CASE Ready(c)
  BY <1>3, <1>5, <1>13, NextStates DEF Ready, At
<1>14. CASE Answer(c)
  <2> DEFINE s == [r EXCEPT !.pc = "finish", !.got = env]
  <2>1. r.pc = "exchange" /\ (Set(c, ToRelease(c)) \/ Set(c, s))
    BY <1>14 DEF Answer, At
  <2>2. s.pc = "finish" /\ s.got = env /\ s.key = r.key /\ s.since = r.since
    BY <1>1 DEF Fields
  <2> HIDE DEF s
  <2>3. Sound(s, s.key)
    BY <1>1, <2>1, <2>2 DEF Sound, Tracks
  <2> QED BY <1>2, <1>5, <2>1, <2>3, SoundStep, NextStates
<1>15. CASE Finish(c)
  <2> DEFINE s == [r EXCEPT !.pc = "store", !.hops = moves - r.since,
                            !.to = IF r.key = 0 THEN env ELSE r.key]
  <2>1. r.pc = "finish" /\ (Set(c, ToRelease(c)) \/ (Storable(r.key) /\ Set(c, s)))
    BY <1>15 DEF Finish, At
  <2>2. /\ s.pc = "store" /\ s.got = r.got /\ s.key = r.key /\ s.hops = moves - r.since
        /\ s.to = IF r.key = 0 THEN env ELSE r.key
    BY <1>1 DEF Fields
  <2>3. r.key \in Environments
    BY <1>1 DEF WellFormed
  <2> HIDE DEF s
  <2>4. ASSUME Storable(r.key)
        PROVE  s.to \in Environments /\ (r.got # s.to => s.hops > 1 \/ r.key = 0)
    <3>1. Sound(r, r.key) /\ env \in Environments /\ moves \in Nat
      BY <1>1
    <3> QED BY <2>1, <2>2, <2>3, <2>4, <3>1, StorableFits
  <2>5. Storable(r.key) => Sound(s, s.key)
    BY <2>2, <2>4 DEF Sound
  <2> QED BY <1>2, <1>5, <2>1, <2>5, SoundStep, NextStates
<1> QED BY <1>7, <1>8, <1>9, <1>10, <1>11, <1>12, <1>13, <1>14, <1>15

\* A new cache that fits, with calls and refreshes that are sound.
LEMMA CacheStep ==
    ASSUME NetInv, UNCHANGED <<env, moves>>,
           DOMAIN cache' = Environments, DOMAIN refresh' = Environments,
           \A k \in Environments :
             /\ DOMAIN cache'[k] = DOMAIN NoEntry /\ DOMAIN refresh'[k] = DOMAIN Idle
             /\ Sound(refresh'[k], k)
             /\ cache'[k].age # "none" /\ cache'[k].got # k
                  => cache'[k].hops > 1 \/ cache'[k].asked = 0,
           \A c \in Calls : Sound(call'[c], call'[c].key)
    PROVE  NetInv'
  BY DEF NetInv, Sound, Tracks, AnswerFitsNetwork

\* The steps of a call that store, remove, start a refresh or release.
LEMMA StoreNet ==
    ASSUME Typed, NetInv, NEW c \in Calls,
           Remove(c) \/ StartRefresh(c) \/ Store(c) \/ Release(c)
    PROVE  NetInv'
<1> DEFINE r == call[c]
<1>1. /\ WellFormed(r) /\ Sound(r, r.key) /\ DOMAIN r = Fields /\ r.key \in Environments
      /\ env \in Environments /\ moves \in Nat
  BY DEF Typed, NetInv, WellFormed
<1>2. ASSUME NEW s, Set(c, s), s.pc = "release" PROVE \A d \in Calls : Sound(call'[d], call'[d].key)
  <2>1. /\ call'[c] = s
        /\ \A d \in Calls \ {c} : call'[d] = call[d]
    BY <1>2 DEF Set, Typed
  <2>2. Sound(s, s.key)
    BY <1>2 DEF Sound
  <2> QED BY <2>1, <2>2 DEF NetInv
<1>3. Set(c, ToRelease(c)) => \A d \in Calls : Sound(call'[d], call'[d].key)
  BY <1>2, NextStates
<1>4. CASE Remove(c)
  <2> DEFINE s == [r EXCEPT !.pc = Missed(c)]
  <2>1. s.pc = Missed(c) /\ s.key = r.key /\ s.since = r.since
    BY <1>1 DEF Fields
  <2>2. Sound(s, s.key)
    BY <1>1, <1>4, <2>1 DEF Sound, Missed, Remove, At
  <2>3. /\ call'[c] = s
        /\ \A d \in Calls \ {c} : call'[d] = call[d]
    BY <1>4 DEF Remove, Goto, Set, Typed
  <2>4. \A d \in Calls : Sound(call'[d], call'[d].key)
    BY <2>2, <2>3, Zenon DEF NetInv
  <2>5. /\ DOMAIN cache' = Environments /\ UNCHANGED <<env, moves, refresh>>
        /\ \A k \in Environments : cache'[k] \in {cache[k], NoEntry}
    BY <1>4 DEF Remove, NetInv
  <2>6. NoEntry.age = "none"
    BY DEF NoEntry
  <2> HIDE DEF s
  <2> QED BY <2>4, <2>5, <2>6, CacheStep DEF NetInv, AnswerFitsNetwork
<1>5. CASE StartRefresh(c)
  <2> DEFINE k == r.key
             g == [Idle EXCEPT !.pc = "exchange", !.since = r.since]
  <2>1. /\ DOMAIN refresh' = Environments /\ UNCHANGED <<env, moves, cache>>
        /\ \A j \in Environments : refresh'[j] = refresh[j] \/ (j = k /\ refresh'[j] = g)
    BY <1>5 DEF StartRefresh, NetInv
  <2>2. DOMAIN g = DOMAIN Idle /\ g.pc = "exchange" /\ g.since = r.since
    BY DEF Idle
  <2>3. r.pc = "refresh"
    BY <1>5 DEF StartRefresh, At
  <2> HIDE DEF g
  <2>4. Sound(g, k)
    BY <1>1, <2>2, <2>3 DEF Sound
  <2>5. \A d \in Calls : Sound(call'[d], call'[d].key)
    BY <1>3, <1>5 DEF StartRefresh
  <2> QED BY <2>1, <2>2, <2>4, <2>5, CacheStep DEF NetInv, AnswerFitsNetwork
<1>6. CASE Store(c)
  <2> DEFINE e == [age |-> "fresh", got |-> r.got, asked |-> r.key, hops |-> r.hops]
  <2>1. r.pc = "store"
    BY <1>6 DEF Store, At
  <2>2. r.to \in Environments /\ (r.got # r.to => r.hops > 1 \/ r.key = 0)
    BY <1>1, <2>1 DEF Sound
  <2>3. /\ DOMAIN cache' = Environments /\ UNCHANGED <<env, moves, refresh>>
        /\ \A j \in Environments : cache'[j] = IF j = r.to THEN e ELSE cache[j]
    BY <1>6 DEF Store, NetInv
  <2>4. DOMAIN e = DOMAIN NoEntry /\ e.got = r.got /\ e.asked = r.key /\ e.hops = r.hops
    BY DEF NoEntry
  <2> HIDE DEF e
  <2>5. \A d \in Calls : Sound(call'[d], call'[d].key)
    BY <1>3, <1>6 DEF Store
  <2> QED BY <2>2, <2>3, <2>4, <2>5, CacheStep DEF NetInv, AnswerFitsNetwork
<1>7. CASE Release(c)
  <2> DEFINE woken(d) == [call[d] EXCEPT !.on = NoCall]
  <2>1. /\ call'[c] = Done /\ UNCHANGED <<env, moves, cache, refresh>>
        /\ \A d \in Calls \ {c} : call'[d] \in {call[d], woken(d)}
    BY <1>7 DEF Release
  <2>2. \A d \in Calls : /\ woken(d).pc = call[d].pc /\ woken(d).key = call[d].key
                         /\ woken(d).since = call[d].since /\ woken(d).got = call[d].got
                         /\ woken(d).to = call[d].to /\ woken(d).hops = call[d].hops
    BY DEF Typed, WellFormed, Fields
  <2> HIDE DEF woken
  <2>3. \A d \in Calls : Sound(call[d], call[d].key) => Sound(woken(d), woken(d).key)
    BY <2>2 DEF Sound
  <2>4. Sound(Done, Done.key)
    BY NextStates DEF Sound
  <2>5. \A d \in Calls : Sound(call'[d], call'[d].key)
    <3> SUFFICES ASSUME NEW d \in Calls PROVE Sound(call'[d], call'[d].key)
      OBVIOUS
    <3>1. Sound(call[d], call[d].key)
      BY DEF NetInv
    <3>2. call'[d] = call[d] \/ call'[d] = woken(d) \/ call'[d] = Done
      BY <2>1
    <3> QED BY <2>3, <2>4, <3>1, <3>2
  <2> QED BY <2>1, <2>5, CacheStep DEF NetInv, AnswerFitsNetwork
<1> QED BY <1>4, <1>5, <1>6, <1>7

\* The steps of a refresh in the background.
LEMMA RefreshNet ==
    ASSUME Typed, NetInv, NEW k \in Environments, RefreshGoesOn(k) PROVE NetInv'
<1> DEFINE g == refresh[k]
<1>1. /\ Sound(g, k) /\ DOMAIN g = DOMAIN Idle /\ DOMAIN refresh = Environments
      /\ env \in Environments /\ moves \in Nat
  BY DEF Typed, NetInv
<1>2. ASSUME NEW s, Refresh(k, s), UNCHANGED cache, DOMAIN s = DOMAIN Idle, Sound(s, k)
      PROVE  NetInv'
  <2>1. /\ DOMAIN refresh' = Environments /\ UNCHANGED <<env, moves, call>>
        /\ \A j \in Environments : refresh'[j] = IF j = k THEN s ELSE refresh[j]
    BY <1>1, <1>2 DEF Refresh
  <2> QED BY <1>2, <2>1, CacheStep DEF NetInv, AnswerFitsNetwork
<1>3. Sound(Idle, k)
  BY DEF Sound, Idle
<1>4. CASE RefreshAnswer(k)
  <2> DEFINE s == [g EXCEPT !.pc = "finish", !.got = env]
  <2>1. g.pc = "exchange" /\ UNCHANGED cache /\ (Refresh(k, Idle) \/ Refresh(k, s))
    BY <1>4 DEF RefreshAnswer
  <2>2. DOMAIN s = DOMAIN Idle /\ s.pc = "finish" /\ s.got = env /\ s.since = g.since
    BY <1>1 DEF Idle
  <2> HIDE DEF s
  <2>3. Sound(s, k)
    BY <1>1, <2>1, <2>2 DEF Sound, Tracks
  <2> QED BY <1>2, <1>3, <2>1, <2>2, <2>3
<1>5. CASE RefreshFinish(k)
  <2> DEFINE s == [g EXCEPT !.pc = "store", !.hops = moves - g.since,
                            !.to = IF k = 0 THEN env ELSE k]
  <2>1. /\ g.pc = "finish" /\ UNCHANGED cache
        /\ Refresh(k, Idle) \/ (Storable(k) /\ Refresh(k, s))
    BY <1>5 DEF RefreshFinish
  <2>2. /\ DOMAIN s = DOMAIN Idle /\ s.pc = "store" /\ s.got = g.got
        /\ s.hops = moves - g.since /\ s.to = IF k = 0 THEN env ELSE k
    BY <1>1 DEF Idle
  <2> HIDE DEF s
  <2>3. ASSUME Storable(k)
        PROVE  s.to \in Environments /\ (g.got # s.to => s.hops > 1 \/ k = 0)
    <3>1. Sound(g, k) /\ env \in Environments /\ moves \in Nat
      BY <1>1
    <3> QED BY <2>1, <2>2, <2>3, <3>1, StorableFits
  <2>4. Storable(k) => Sound(s, k)
    BY <2>2, <2>3 DEF Sound
  <2> QED BY <1>2, <1>3, <2>1, <2>2, <2>4
<1>6. CASE RefreshStore(k)
  <2> DEFINE e == [age |-> "fresh", got |-> g.got, asked |-> k, hops |-> g.hops]
  <2>1. g.to \in Environments /\ (g.got # g.to => g.hops > 1 \/ k = 0)
    BY <1>1, <1>6 DEF RefreshStore, Sound
  <2>2. /\ DOMAIN cache' = Environments
        /\ \A j \in Environments : cache'[j] = IF j = g.to THEN e ELSE cache[j]
    BY <1>6 DEF RefreshStore, NetInv
  <2>3. /\ DOMAIN refresh' = Environments /\ UNCHANGED <<env, moves, call>>
        /\ \A j \in Environments : refresh'[j] = IF j = k THEN Idle ELSE refresh[j]
    BY <1>1, <1>6 DEF RefreshStore, Refresh
  <2>4. DOMAIN e = DOMAIN NoEntry /\ e.got = g.got /\ e.asked = k /\ e.hops = g.hops
    BY DEF NoEntry
  <2> HIDE DEF e
  <2> QED BY <1>3, <2>1, <2>2, <2>3, <2>4, CacheStep, SMTT(20) DEF NetInv, AnswerFitsNetwork
<1> QED BY <1>4, <1>5, <1>6 DEF RefreshGoesOn

\* Every step keeps NetInv.
LEMMA StepNet == Typed /\ NetInv /\ [Next]_vars => NetInv'
<1> SUFFICES ASSUME Typed, NetInv, [Next]_vars PROVE NetInv'
  OBVIOUS
<1>1. ASSUME NEW c \in Calls, Begin(c) \/ Lookup(c) \/ GoesOn(c) \/ WaitCancelled(c)
      PROVE  NetInv'
  BY <1>1, CallNet, StoreNet DEF GoesOn
<1>2. ASSUME NEW k \in Environments, Expire(k) PROVE NetInv'
  <2>1. PICK age : cache' = [cache EXCEPT ![k].age = age]
    BY <1>2, Zenon DEF Expire
  <2>2. /\ DOMAIN cache' = Environments /\ UNCHANGED <<env, moves, call, refresh>>
        /\ \A j \in Environments : /\ DOMAIN cache'[j] = DOMAIN NoEntry
                                   /\ cache'[j].got = cache[j].got
                                   /\ cache'[j].hops = cache[j].hops
                                   /\ cache'[j].asked = cache[j].asked
                                   /\ cache'[j].age = "none" \/ cache[j].age # "none"
    BY <1>2, <2>1 DEF Expire, NetInv, NoEntry
  <2>3. ASSUME NEW j \in Environments
        PROVE  cache'[j].age # "none" /\ cache'[j].got # j
                 => cache'[j].hops > 1 \/ cache'[j].asked = 0
    BY <2>2 DEF NetInv, AnswerFitsNetwork
  <2> QED BY <2>2, <2>3, CacheStep DEF NetInv
<1>3. CASE ClearCache
  <2>1. /\ DOMAIN cache' = Environments /\ UNCHANGED <<env, moves, call, refresh>>
        /\ \A j \in Environments : cache'[j] = NoEntry
    BY <1>3 DEF ClearCache
  <2>2. NoEntry.age = "none"
    BY DEF NoEntry
  <2> QED BY <2>1, <2>2, CacheStep DEF NetInv
<1>4. CASE Move
  <2>1. /\ moves' = moves + 1 /\ env' # env /\ moves \in Nat
        /\ UNCHANGED <<call, cache, refresh>>
    BY <1>4 DEF Move, Typed
  <2>2. ASSUME NEW c \in Calls PROVE Sound(call[c], call[c].key)'
    <3>1. Sound(call[c], call[c].key)
      BY DEF NetInv
    <3> QED BY <2>1, <3>1 DEF Sound, Tracks
  <2>3. ASSUME NEW k \in Environments PROVE Sound(refresh[k], k)'
    <3>1. Sound(refresh[k], k)
      BY DEF NetInv
    <3> QED BY <2>1, <3>1, SMTT(20) DEF Sound, Tracks
  <2> QED BY <2>1, <2>2, <2>3 DEF NetInv, AnswerFitsNetwork
<1>5. CASE UNCHANGED vars
  BY <1>5 DEF NetInv, Sound, Tracks, AnswerFitsNetwork, vars
<1> QED BY <1>1, <1>2, <1>3, <1>4, <1>5, RefreshNet DEF Next

\* AnswerFitsNetwork for any number of calls, refreshes and moves: finishCacheKey
\* keeps an answer of one network out of what the cache has for another.
THEOREM NetworksApart == Spec => []AnswerFitsNetwork
<1>1. NetInv => AnswerFitsNetwork
  BY DEF NetInv
<1> QED BY <1>1, InitLock, StepLock, InitNet, StepNet, PTL DEF Spec

-----------------------------------------------------------------------------
(***************************************************************************)
(* Proofs about SequentialExchange, for any number of candidates: the      *)
(* callback is called once, and a name error that was met is not lost.     *)
(***************************************************************************)

\* The types, and what a candidate's callback and loop know of each other.
SeqLocal ==
    /\ loop \in [Names -> {"none", "top", "inside", "past"}]
    /\ back \in [Names -> Results \union {"none", "owed", "over"}]
    /\ returned \in [Names -> BOOLEAN] /\ continued \in [Names -> BOOLEAN]
    /\ \A i \in Names :
         /\ loop[i] \in {"none", "top"} => back[i] = "none"
         /\ loop[i] = "past" /\ back[i] # "none" => returned[i]
         /\ returned[i] => loop[i] = "past"
         /\ continued[i] => back[i] = "over" /\ i # N

\* The candidates after the one that holds the exchange have not been reached.
InTurn ==
    \A i, j \in Names : Holds(i) /\ i < j => loop[j] = "none"

\* The response that is kept is a name error if there was one, and the own one
\* before all others.
Keeps ==
    /\ answer \in [Names -> Results \union {"none"}] /\ kept \in 0..N
    /\ \A i \in Names :
         /\ back[i] \in Results => answer[i] = back[i]
         /\ back[i] \in {"none", "owed"} => answer[i] = "none"
         /\ answer[i] = "nameerror" => kept # 0
    /\ Own \in Names /\ answer[Own] = "nameerror" => kept = Own

SeqInv == SeqLocal /\ InTurn /\ CalledBackOnce

\* The invariant holds at the start, where the first candidate's turn is next.
LEMMA InitInv == ASSUME N \in Nat \ {0}, SeqInit PROVE SeqInv
<1>1. 1 \in Names /\ Holds(1)
  BY DEF SeqInit, Names, Holds, Results
<1>2. \A i \in Names : Holds(i) => i = 1
  BY DEF SeqInit, Names, Holds, Results
<1>3. SeqLocal
  BY DEF SeqInit, SeqLocal, Names, Results
<1>4. InTurn
  BY <1>2 DEF SeqInit, InTurn, Names
<1>5. CalledBackOnce
  BY <1>1, <1>2 DEF SeqInit, CalledBackOnce
<1> QED BY <1>3, <1>4, <1>5 DEF SeqInv

\* A step that leaves the exchange with one candidate, from i to k, preserves the
\* statement about the callback; k is i or the candidate after it.
LEMMA Handover ==
    ASSUME CalledBackOnce, NEW i \in Names, NEW k \in Names, Holds(i), Holds(k)',
           delivered' = delivered, \A j \in Names : Holds(j)' => j = k
    PROVE  CalledBackOnce'
BY DEF CalledBackOnce, Names

\* A step that calls back takes the exchange from everybody.
LEMMA Delivery ==
    ASSUME CalledBackOnce, NEW i \in Names, Holds(i), delivered' = delivered + 1,
           \A j \in Names : ~Holds(j)'
    PROVE  CalledBackOnce'
BY DEF CalledBackOnce, Names

\* Run keeps the exchange with the candidate, or calls back with the context's error.
LEMMA RunInv == ASSUME N \in Nat \ {0}, SeqInv, NEW i \in Names, Run(i) PROVE SeqInv'
<1> USE DEF Results
<1>0. Holds(i) /\ \A j \in Names : Holds(j) => j = i
  BY DEF Run, Holds, SeqInv, CalledBackOnce
<1>1. SeqLocal'
  BY DEF SeqInv, SeqLocal, Run
<1>2. \A j \in Names : Holds(j)' => j = i
  BY <1>0 DEF SeqInv, SeqLocal, Run, Holds
<1>3. InTurn'
  BY <1>0, <1>2 DEF SeqInv, SeqLocal, InTurn, Run, Names
<1>4. CASE ended
  <2>1. \A j \in Names : ~Holds(j)'
    BY <1>2, <1>4 DEF SeqInv, SeqLocal, Run, Holds
  <2> QED BY <2>1, <1>0, <1>1, <1>3, <1>4, Delivery DEF SeqInv, Run, Callback
<1>5. CASE ~ended
  <2>1. Holds(i)'
    BY <1>5 DEF SeqInv, SeqLocal, Run, Holds
  <2> QED BY <2>1, <1>0, <1>1, <1>2, <1>3, <1>5, Handover DEF SeqInv, Run
<1> QED BY <1>4, <1>5

\* Answer leaves the exchange with the candidate's callback.
LEMMA AnswerInv == ASSUME N \in Nat \ {0}, SeqInv, NEW i \in Names, SeqAnswer(i) PROVE SeqInv'
<1> USE DEF Results
<1>0. Holds(i) /\ \A j \in Names : Holds(j) => j = i
  BY DEF SeqAnswer, Holds, SeqInv, CalledBackOnce
<1>1. SeqLocal'
  BY DEF SeqInv, SeqLocal, SeqAnswer
<1>2. \A j \in Names : Holds(j)' => j = i
  BY <1>0 DEF SeqInv, SeqLocal, SeqAnswer, Holds
<1>3. InTurn'
  BY <1>0, <1>2 DEF SeqInv, SeqLocal, InTurn, SeqAnswer, Names
<1>4. Holds(i)'
  BY DEF SeqInv, SeqLocal, SeqAnswer, Holds
<1> QED BY <1>0, <1>1, <1>2, <1>3, <1>4, Handover DEF SeqInv, SeqAnswer

\* Accept calls back, and nobody has the exchange any more.
LEMMA AcceptInv == ASSUME N \in Nat \ {0}, SeqInv, NEW i \in Names, Accept(i) PROVE SeqInv'
<1> USE DEF Results
<1>0. Holds(i) /\ \A j \in Names : Holds(j) => j = i
  BY DEF Accept, Holds, SeqInv, CalledBackOnce
<1>1. SeqLocal'
  BY DEF SeqInv, SeqLocal, Accept
<1>2. \A j \in Names : ~Holds(j)'
  BY <1>0 DEF SeqInv, SeqLocal, Accept, Holds
<1>3. InTurn'
  BY <1>2 DEF InTurn
<1> QED BY <1>0, <1>1, <1>2, <1>3, Delivery DEF SeqInv, Accept, Callback

\* Reject hands the exchange to the next candidate's loop if the exchanger has
\* returned, and leaves it to the loop that is still inside if not.
LEMMA RejectInv == ASSUME N \in Nat \ {0}, SeqInv, NEW i \in Names, Reject(i) PROVE SeqInv'
<1> USE DEF Results
<1>0. Holds(i) /\ \A j \in Names : Holds(j) => j = i
  BY DEF Reject, Holds, SeqInv, CalledBackOnce
<1>n. i + 1 \in Names /\ i < i + 1 /\ loop[i + 1] = "none"
  BY <1>0 DEF Reject, Names, SeqInv, InTurn
<1>1. SeqLocal'
  BY <1>n, Zenon DEF SeqInv, SeqLocal, Reject
<1>2. CASE returned[i]
  <2>1. Holds(i + 1)'
    BY <1>n, <1>2 DEF SeqInv, SeqLocal, Reject, Holds
  <2>2. \A j \in Names : Holds(j)' => j = i + 1
    BY <1>0, <1>n, <1>2 DEF SeqInv, SeqLocal, Reject, Holds
  <2>3. InTurn'
    BY <1>0, <1>n, <1>2, <2>2 DEF SeqInv, SeqLocal, InTurn, Reject, Names
  <2> QED BY <1>0, <1>n, <1>1, <2>1, <2>2, <2>3, Handover DEF SeqInv, Reject
<1>3. CASE ~returned[i]
  <2>1. Holds(i)'
    BY <1>3 DEF SeqInv, SeqLocal, Reject, Holds
  <2>2. \A j \in Names : Holds(j)' => j = i
    BY <1>0, <1>3 DEF SeqInv, SeqLocal, Reject, Holds
  <2>3. InTurn'
    BY <1>0, <1>3, <2>2 DEF SeqInv, SeqLocal, InTurn, Reject, Names
  <2> QED BY <1>0, <1>1, <2>1, <2>2, <2>3, Handover DEF SeqInv, Reject
<1> QED BY <1>2, <1>3

\* Return goes on with the next candidate if the callback has left it that, and
\* otherwise leaves the exchange to the callback.
LEMMA ReturnInv == ASSUME N \in Nat \ {0}, SeqInv, NEW i \in Names, Return(i) PROVE SeqInv'
<1> USE DEF Results
<1>1. CASE continued[i]
  <2>0. Holds(i) /\ \A j \in Names : Holds(j) => j = i
    BY <1>1 DEF Return, Holds, SeqInv, CalledBackOnce
  <2>n. i + 1 \in Names /\ i < i + 1 /\ i + 1 # i /\ loop[i + 1] = "none"
    BY <1>1, <2>0 DEF Names, SeqInv, SeqLocal, InTurn
  <2>l. loop' = [loop EXCEPT ![i] = "past", ![i + 1] = "top"]
    BY <1>1 DEF Return
  <2>1. SeqLocal'
    BY <1>1, <2>n, <2>l DEF SeqInv, SeqLocal, Return
  <2>2. Holds(i + 1)'
    BY <2>n, <2>l DEF SeqInv, SeqLocal, Holds
  <2>3. \A j \in Names : Holds(j)' => j = i + 1
    BY <1>1, <2>0, <2>n, <2>l DEF SeqInv, SeqLocal, Return, Holds
  <2>4. InTurn'
    BY <2>0, <2>n, <2>l, <2>3 DEF SeqInv, SeqLocal, InTurn, Names
  <2>5. delivered' = delivered
    BY DEF Return
  <2> QED BY <2>0, <2>n, <2>1, <2>2, <2>3, <2>4, <2>5, Handover DEF SeqInv
<1>2. CASE ~continued[i]
  <2>1. SeqLocal'
    BY <1>2 DEF SeqInv, SeqLocal, Return
  <2>2. \A j \in Names : Holds(j)' <=> Holds(j)
    BY <1>2 DEF SeqInv, SeqLocal, Return, Holds
  <2>3. InTurn'
    BY <1>2, <2>2 DEF SeqInv, SeqLocal, InTurn, Return, Names
  <2>4. CalledBackOnce'
    BY <2>2 DEF SeqInv, CalledBackOnce, Return
  <2> QED BY <2>1, <2>3, <2>4 DEF SeqInv
<1> QED BY <1>1, <1>2

\* No step breaks the invariant.
LEMMA NextInv == ASSUME N \in Nat \ {0}, SeqInv, [SeqNext]_seqVars PROVE SeqInv'
<1>1. CASE EndCtx \/ UNCHANGED seqVars
  BY <1>1 DEF SeqInv, SeqLocal, InTurn, CalledBackOnce, Holds, EndCtx, seqVars
<1> QED BY <1>1, RunInv, AnswerInv, AcceptInv, RejectInv, ReturnInv DEF SeqNext

\* What is kept, and what was delivered, is right in every step: the answers no
\* longer change once the exchange is in nobody's hands.
LEMMA KeepsNext ==
    ASSUME N \in Nat \ {0}, SeqInv, Keeps, NameErrorKept, [SeqNext]_seqVars
    PROVE  Keeps' /\ NameErrorKept'
<1> USE DEF Results
<1>1. ASSUME NEW i \in Names, Run(i) PROVE Keeps' /\ NameErrorKept'
  <2>1. back[i] = "none" /\ delivered = 0
    BY <1>1 DEF SeqInv, SeqLocal, CalledBackOnce, Holds, Run
  <2>2. Keeps'
    BY <1>1, <2>1 DEF Keeps, Run, SeqInv, SeqLocal
  <2>3. NameErrorKept'
    BY <1>1, <2>1 DEF Keeps, NameErrorKept, Run, Callback
  <2> QED BY <2>2, <2>3
<1>2. ASSUME NEW i \in Names, SeqAnswer(i) PROVE Keeps' /\ NameErrorKept'
  <2>1. delivered = 0 /\ delivered' = 0
    BY <1>2 DEF SeqInv, CalledBackOnce, Holds, SeqAnswer
  <2>2. PICK r \in Results : /\ back' = [back EXCEPT ![i] = r]
                             /\ answer' = [answer EXCEPT ![i] = r]
                             /\ kept' = IF r = "nameerror" /\ (kept = 0 \/ i = Own) THEN i ELSE kept
    BY <1>2, Zenon DEF SeqAnswer
  <2>3. i # 0 /\ i \in 0..N
    BY DEF Names
  <2>4. Keeps'
    BY <1>2, <2>2, <2>3 DEF Keeps, SeqAnswer, SeqInv, SeqLocal
  <2> QED BY <2>1, <2>4 DEF NameErrorKept
<1>3. ASSUME NEW i \in Names, Accept(i) PROVE Keeps' /\ NameErrorKept'
  <2>1. Keeps'
    BY <1>3 DEF Keeps, Accept, SeqInv, SeqLocal
  <2>2. back[i] = answer[i]
    BY <1>3 DEF Keeps, Accept
  <2>3. NameErrorKept'
    BY <1>3, <2>2 DEF Keeps, NameErrorKept, Accept, Callback
  <2> QED BY <2>1, <2>3
<1>4. ASSUME NEW i \in Names, Reject(i) PROVE Keeps' /\ NameErrorKept'
  BY <1>4 DEF Keeps, NameErrorKept, Reject, SeqInv, SeqLocal
<1>5. ASSUME NEW i \in Names, Return(i) PROVE Keeps' /\ NameErrorKept'
  BY <1>5 DEF Keeps, NameErrorKept, Return
<1>6. CASE EndCtx \/ UNCHANGED seqVars
  BY <1>6 DEF Keeps, NameErrorKept, EndCtx, seqVars
<1> QED BY <1>1, <1>2, <1>3, <1>4, <1>5, <1>6 DEF SeqNext

\* Whoever asked is called back once and is not forgotten: run and the callback of
\* an exchanger never both go on with the next candidate, and never neither.
THEOREM AskerCalledOnce == ASSUME N \in Nat \ {0} PROVE SeqSpec => []CalledBackOnce
<1>1. SeqInv => CalledBackOnce
  BY DEF SeqInv
<1> QED BY <1>1, InitInv, NextInv, PTL DEF SeqSpec

\* An error is delivered only if no candidate was said not to exist, and of several
\* such answers the one about the name that was asked for is delivered.
THEOREM NameErrorsKept == ASSUME N \in Nat \ {0} PROVE SeqSpec => []NameErrorKept
<1>1. SeqInit => Keeps /\ NameErrorKept
  BY DEF SeqInit, Keeps, NameErrorKept, Names, Results
<1> QED BY <1>1, InitInv, NextInv, KeepsNext, PTL DEF SeqSpec

-----------------------------------------------------------------------------
(***************************************************************************)
(* ReuseProbe for any number of queries, connections, probes and Resets.   *)
(* The argument is one of epochs: only the probe of the present epoch may  *)
(* leave the state of probing, and Reset leaves every probe behind.        *)
(***************************************************************************)

\* No probe is of an epoch to come; probeAccess is held by one probe, after it has
\* stored its verdict.
EpochInv ==
    /\ probeEpoch \in Nat /\ demoteFailures \in Nat
    /\ DOMAIN probe = Probes /\ DOMAIN reader = Readers
    /\ \A p \in Probes : /\ probe[p].epoch \in Nat /\ probe[p].epoch <= probeEpoch
                         /\ probe[p].pc = "clear" => held
    /\ \A p, q \in Probes : probe[p].pc = "clear" /\ probe[q].pc = "clear" => p = q

ProbeInv == EpochInv /\ ProbeIsRunning /\ ReuseIsEarned /\ CountIsCleared

\* A new multiplexer satisfies the invariant.
LEMMA InitProbe == ProbeInit => ProbeInv
<1> SUFFICES ASSUME ProbeInit PROVE ProbeInv
  OBVIOUS
<1>1. \A p \in Probes : probe[p].pc = "none" /\ probe[p].epoch = 0
  BY DEF ProbeInit, NoProbe
<1>2. EpochInv
  BY <1>1 DEF ProbeInit, EpochInv
<1>3. ProbeIsRunning
  BY <1>1 DEF ProbeInit, ProbeIsRunning, Probing
<1>4. ReuseIsEarned /\ CountIsCleared
  BY DEF ProbeInit, ReuseIsEarned, CountIsCleared, Limit
<1> QED BY <1>2, <1>3, <1>4 DEF ProbeInv

\* Nobody but the holders of probeAccess, and nothing but demoteFailures and the
\* goroutines of recordConnDeath, changes.
LEMMA ReaderStep ==
    ASSUME ProbeInv, UNCHANGED <<reuseState, probeEpoch, held, probe, earned>>,
           demoteFailures' \in Nat, DOMAIN reader' = Readers, CountIsCleared'
    PROVE  ProbeInv'
  BY DEF ProbeInv, EpochInv, ProbeIsRunning, ReuseIsEarned, Probing

\* A probe starts: there is none of this epoch.
LEMMA StartStep ==
    ASSUME ProbeInv, NEW c \in Callers, MaybeStartProbe(c) PROVE ProbeInv'
<1>1. CASE reuseState = "probing" \/ last = "recent"
  <2>1. UNCHANGED <<reuseState, probeEpoch, held, probe, earned, reader, demoteFailures>>
    BY <1>1 DEF MaybeStartProbe
  <2> QED BY <2>1, ReaderStep DEF ProbeInv, EpochInv, CountIsCleared
<1>2. CASE reuseState # "probing" /\ last # "recent"
  <2>1. PICK p \in Probes :
          /\ probe[p].pc = "none"
          /\ probe' = [probe EXCEPT ![p] = [pc |-> "run", epoch |-> probeEpoch]]
    BY <1>2 DEF MaybeStartProbe
  <2>2. /\ reuseState' = "probing" /\ UNCHANGED <<probeEpoch, held, earned, reader, demoteFailures>>
    BY <1>2 DEF MaybeStartProbe
  <2>3. /\ DOMAIN probe' = Probes /\ probe'[p].pc = "run" /\ probe'[p].epoch = probeEpoch
        /\ \A q \in Probes : q # p => probe'[q] = probe[q]
    BY <2>1 DEF ProbeInv, EpochInv
  <2>4. \A q \in Probes : ~Probing(q)
    BY <1>2 DEF ProbeInv, ProbeIsRunning
  <2>5. EpochInv'
    BY <2>2, <2>3 DEF ProbeInv, EpochInv
  <2>6. ProbeIsRunning'
    BY <2>2, <2>3, <2>4 DEF ProbeIsRunning, Probing
  <2>7. ReuseIsEarned' /\ CountIsCleared'
    BY <2>2 DEF ProbeInv, ReuseIsEarned, CountIsCleared
  <2> QED BY <2>5, <2>6, <2>7 DEF ProbeInv
<1> QED BY <1>1, <1>2

\* A probe ends: a late one changes nothing, and after the one of this epoch there
\* is none.
LEMMA EndStep ==
    ASSUME ProbeInv, NEW p \in Probes, ProbeEnds(p) PROVE ProbeInv'
<1>1. /\ probe[p].pc = "run" /\ ~held /\ UNCHANGED <<probeEpoch, reader, demoteFailures>>
      /\ probe[p].epoch \in Nat /\ DOMAIN probe = Probes
  BY DEF ProbeEnds, ProbeInv, EpochInv
<1>2. CountIsCleared'
  BY <1>1 DEF ProbeInv, CountIsCleared
<1>3. ASSUME DOMAIN probe' = Probes, \A q \in Probes : q # p => probe'[q] = probe[q],
             probe'[p].pc # "run", probe'[p].epoch \in Nat, probe'[p].epoch <= probeEpoch,
             probe'[p].pc = "clear" => held'
      PROVE  /\ EpochInv' /\ ~Probing(p)'
             /\ \A q \in Probes : q # p => (Probing(q)' <=> Probing(q))
  <2>1. \A q \in Probes : q # p => probe[q].pc # "clear"
    BY <1>1 DEF ProbeInv, EpochInv
  <2>2. EpochInv'
    BY <1>1, <1>3, <2>1 DEF ProbeInv, EpochInv
  <2> QED BY <1>1, <1>3, <2>2 DEF Probing
<1>4. NoProbe.pc = "none" /\ NoProbe.epoch = 0 /\ probeEpoch \in Nat
  BY DEF NoProbe, ProbeInv, EpochInv
<1>5. CASE probe[p].epoch # probeEpoch
  <2>1. UNCHANGED <<reuseState, held, earned>> /\ probe' = [probe EXCEPT ![p] = NoProbe]
    BY <1>5 DEF ProbeEnds
  <2>2. /\ EpochInv' /\ ~Probing(p)'
        /\ \A q \in Probes : q # p => (Probing(q)' <=> Probing(q))
    BY <1>1, <1>3, <1>4, <2>1
  <2>3. ~Probing(p)
    BY <1>5 DEF Probing
  <2>4. ProbeIsRunning'
    BY <2>1, <2>2, <2>3 DEF ProbeInv, ProbeIsRunning
  <2>5. ReuseIsEarned'
    BY <1>1, <2>1 DEF ProbeInv, ReuseIsEarned
  <2> QED BY <1>2, <2>2, <2>4, <2>5 DEF ProbeInv
<1>6. CASE probe[p].epoch = probeEpoch
  <2>1. Probing(p) /\ \A q \in Probes : q # p => ~Probing(q)
    BY <1>1, <1>6 DEF Probing, ProbeInv, ProbeIsRunning
  <2>2. CASE reuseState' = "supported"
    <3>1. /\ held' /\ earned' = probeEpoch
          /\ probe' = [probe EXCEPT ![p] = [pc |-> "clear", epoch |-> probeEpoch]]
      BY <1>6, <2>2 DEF ProbeEnds
    <3>2. /\ EpochInv' /\ ~Probing(p)'
          /\ \A q \in Probes : q # p => (Probing(q)' <=> Probing(q))
      BY <1>1, <1>3, <1>4, <3>1
    <3>3. ProbeIsRunning'
      BY <2>1, <2>2, <3>2 DEF ProbeIsRunning
    <3> QED BY <1>1, <1>2, <3>1, <3>2, <3>3 DEF ProbeInv, ReuseIsEarned
  <2>3. CASE reuseState' \in {"unknown", "unsupported"}
    <3>1. ~held' /\ probe' = [probe EXCEPT ![p] = NoProbe]
      BY <1>1, <1>6, <2>3 DEF ProbeEnds
    <3>2. /\ EpochInv' /\ ~Probing(p)'
          /\ \A q \in Probes : q # p => (Probing(q)' <=> Probing(q))
      BY <1>1, <1>3, <1>4, <3>1
    <3>3. ProbeIsRunning'
      BY <2>1, <2>3, <3>2 DEF ProbeIsRunning
    <3> QED BY <1>2, <2>3, <3>2, <3>3 DEF ProbeInv, ReuseIsEarned
  <2> QED BY <1>6, <2>2, <2>3 DEF ProbeEnds
<1> QED BY <1>5, <1>6

\* The successful probe leaves probeAccess.
LEMMA ClearStep ==
    ASSUME ProbeInv, NEW p \in Probes, ProbeClears(p) PROVE ProbeInv'
<1>1. /\ probe[p].pc = "clear" /\ probe' = [probe EXCEPT ![p] = NoProbe] /\ demoteFailures' = 0
      /\ UNCHANGED <<reuseState, probeEpoch, reader, earned>>
  BY DEF ProbeClears
<1>2. /\ DOMAIN probe' = Probes /\ probe'[p] = NoProbe
      /\ \A q \in Probes : q # p => probe'[q] = probe[q] /\ probe[q].pc # "clear"
  BY <1>1 DEF ProbeInv, EpochInv
<1>3. NoProbe.pc = "none" /\ NoProbe.epoch = 0
  BY DEF NoProbe
<1>4. EpochInv'
  BY <1>1, <1>2, <1>3 DEF ProbeInv, EpochInv
<1>5. \A q \in Probes : Probing(q)' <=> Probing(q)
  BY <1>1, <1>2, <1>3 DEF Probing
<1>6. ProbeIsRunning'
  BY <1>1, <1>5 DEF ProbeInv, ProbeIsRunning
<1>7. ReuseIsEarned' /\ CountIsCleared'
  BY <1>1 DEF ProbeInv, ReuseIsEarned, CountIsCleared, Limit
<1> QED BY <1>4, <1>6, <1>7 DEF ProbeInv

\* Reset leaves every probe behind.
LEMMA ResetStep ==
    ASSUME ProbeInv, Reset PROVE ProbeInv'
<1>1. /\ probeEpoch' = probeEpoch + 1 /\ reuseState' = "unknown"
      /\ UNCHANGED <<probe, held, reader, demoteFailures>>
  BY DEF Reset
<1>2. EpochInv'
  BY <1>1 DEF ProbeInv, EpochInv
<1>3. \A p \in Probes : ~Probing(p)'
  BY <1>1 DEF ProbeInv, EpochInv, Probing
<1>4. ProbeIsRunning'
  BY <1>1, <1>3 DEF ProbeIsRunning
<1> QED BY <1>1, <1>2, <1>4 DEF ProbeInv, ReuseIsEarned, CountIsCleared

\* recordConnDeath
LEMMA DeathStep ==
    ASSUME ProbeInv, NEW r \in Readers, ConnDies(r) \/ AddFailure(r) \/ Demote(r) \/ ReaderClears(r)
    PROVE  ProbeInv'
<1> USE DEF ReaderAt
<1>1. demoteFailures \in Nat /\ DOMAIN reader = Readers
  BY DEF ProbeInv, EpochInv
<1>2. ASSUME NEW pc, reader' = [reader EXCEPT ![r] = pc]
      PROVE  /\ DOMAIN reader' = Readers /\ reader'[r] = pc
             /\ \A q \in Readers : q # r => reader'[q] = reader[q]
  BY <1>1, <1>2
<1>3. CASE ConnDies(r)
  <2>1. /\ reader[r] = "idle" /\ demoteFailures' = demoteFailures /\ DOMAIN reader' = Readers
        /\ \A q \in Readers : q # r => reader'[q] = reader[q]
        /\ UNCHANGED <<reuseState, probeEpoch, held, probe, earned>>
    BY <1>1, <1>3 DEF ConnDies
  <2>2. CountIsCleared'
    BY <2>1 DEF ProbeInv, CountIsCleared
  <2>3. demoteFailures' \in Nat
    BY <1>1, <2>1
  <2> QED BY <2>1, <2>2, <2>3, ReaderStep, Zenon
<1>4. CASE AddFailure(r)
  <2>1. /\ reader[r] = "add" /\ demoteFailures' = demoteFailures + 1 /\ DOMAIN reader' = Readers
        /\ \A q \in Readers : q # r => reader'[q] = reader[q]
        /\ demoteFailures' >= Limit => reader'[r] = "demote"
        /\ UNCHANGED <<reuseState, probeEpoch, held, probe, earned>>
    BY <1>1, <1>4 DEF AddFailure, Limit
  <2>2. CountIsCleared'
    BY <2>1 DEF CountIsCleared
  <2>3. demoteFailures' \in Nat
    BY <1>1, <2>1
  <2> QED BY <2>1, <2>2, <2>3, ReaderStep, Zenon
<1>5. CASE Demote(r)
  <2>1. /\ DOMAIN reader' = Readers /\ reader'[r] = "clear" /\ ~held
        /\ reuseState' = reuseState
             \/ (reuseState = "supported" /\ reuseState' = "unsupported")
        /\ UNCHANGED <<demoteFailures, probeEpoch, held, probe, earned>>
    BY <1>1, <1>5 DEF Demote
  <2>2. CountIsCleared' /\ EpochInv'
    BY <2>1 DEF CountIsCleared, ProbeInv, EpochInv
  <2>3. ProbeIsRunning' /\ ReuseIsEarned'
    BY <2>1 DEF ProbeInv, ProbeIsRunning, ReuseIsEarned, Probing
  <2> QED BY <2>2, <2>3 DEF ProbeInv
<1>6. CASE ReaderClears(r)
  <2>1. /\ demoteFailures' = 0 /\ DOMAIN reader' = Readers
        /\ UNCHANGED <<reuseState, probeEpoch, held, probe, earned>>
    BY <1>1, <1>6 DEF ReaderClears
  <2>2. CountIsCleared'
    BY <2>1 DEF CountIsCleared, Limit
  <2> QED BY <2>1, <2>2, ReaderStep
<1> QED BY <1>3, <1>4, <1>5, <1>6

\* Every step keeps the invariant.
LEMMA StepProbe == ProbeInv /\ [ProbeNext]_probeVars => ProbeInv'
<1> SUFFICES ASSUME ProbeInv, [ProbeNext]_probeVars PROVE ProbeInv'
  OBVIOUS
<1>1. ASSUME UNCHANGED <<reuseState, probeEpoch, held, probe, earned, reader>>,
             demoteFailures' \in {0, demoteFailures}
      PROVE  ProbeInv'
  <2>1. demoteFailures' \in Nat /\ DOMAIN reader' = Readers /\ CountIsCleared'
    BY <1>1 DEF ProbeInv, EpochInv, CountIsCleared, Limit
  <2> QED BY <1>1, <2>1, ReaderStep
<1>2. ASSUME NEW c \in Callers, Dispatch(c) PROVE ProbeInv'
  BY <1>1, <1>2 DEF Dispatch
<1>3. CASE ResetClears \/ MinutePasses \/ UNCHANGED probeVars
  BY <1>1, <1>3 DEF ResetClears, MinutePasses, probeVars
<1> QED BY <1>2, <1>3, StartStep, EndStep, ClearStep, ResetStep, DeathStep DEF ProbeNext

\* The reuse state never stays at probing: a probe of the present epoch is under
\* way whenever it says so, and only one.
THEOREM ProbingEnds == ProbeSpec => []ProbeIsRunning
<1>1. ProbeInv => ProbeIsRunning
  BY DEF ProbeInv
<1> QED BY <1>1, InitProbe, StepProbe, PTL DEF ProbeSpec

\* Connections are shared only after a probe of the present epoch has succeeded.
THEOREM ReuseEarned == ProbeSpec => []ReuseIsEarned
<1>1. ProbeInv => ReuseIsEarned
  BY DEF ProbeInv
<1> QED BY <1>1, InitProbe, StepProbe, PTL DEF ProbeSpec

\* Whoever brings demoteFailures to its limit clears it.
THEOREM CountCleared == ProbeSpec => []CountIsCleared
<1>1. ProbeInv => CountIsCleared
  BY DEF ProbeInv
<1> QED BY <1>1, InitProbe, StepProbe, PTL DEF ProbeSpec
=============================================================================
