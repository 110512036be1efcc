-------------------------- MODULE DnsConnPoolProofs -------------------------
(***************************************************************************)
(* DnsConnPool for any number of callers, dials and resets: what a state   *)
(* of the pool holds, that no connection is lost, that one caller is told  *)
(* of a new one, and that the pool implements SharedConn.                  *)
(***************************************************************************)
EXTENDS DnsConnPool, TLAPS

StateFields == {"all", "shared", "claimed", "connecting", "ended", "tear"}

DialFields == {"pc", "gen", "owner", "ok", "err"}

CallFields == {"pc", "gen", "conn"}

Types ==
    /\ closed \in BOOLEAN /\ cur \in Gens
    /\ DOMAIN st = Gens /\ \A g \in Gens : DOMAIN st[g] = StateFields
    /\ DOMAIN dial = Conns /\ \A d \in Conns : DOMAIN dial[d] = DialFields
    /\ DOMAIN claims = Conns

CallTypes == DOMAIN call = Callers /\ \A w \in Callers : DOMAIN call[w] = CallFields

\* The state is the one that Acquire looks at, or is still to come.
Untouched(g) == g > cur \/ (g = cur /\ ~closed)

Connecting(d) == dial[d].pc \in {"dialing", "install"}

\* A state of the pool: its connection is the one of its last dial, and new to
\* the next caller unless it was handed out.
StateOk(g) ==
    /\ st[g].shared \in Conns \union {NoConn}
    /\ st[g].connecting \in Conns \union {NoConn}
    /\ st[g].all = {st[g].shared} \ {NoConn}
    /\ st[g].connecting # NoConn => st[g].shared = NoConn
    /\ g > cur => st[g].shared = NoConn /\ st[g].connecting = NoConn
    /\ st[g].tear = "none" <=> Untouched(g)
    /\ st[g].ended => st[g].tear = "done"
    /\ st[g].claimed <=> st[g].shared \in handed
    /\ st[g].claimed \in BOOLEAN

StateInv == \A g \in Gens : StateOk(g)

\* A dial belongs to one state, and so does the connection it brings.
DialOk(d) ==
    /\ dial[d].gen \in 0..cur /\ dial[d].err \in BOOLEAN
    /\ dial[d].pc \in {"unused", "dialing", "install", "finish", "done"}
    /\ Connecting(d) => st[dial[d].gen].connecting = d
    /\ dial[d].pc = "install" /\ dial[d].ok /\ dial[d].err => d \in connClosed
    /\ d \in Installed \ cancelled => st[dial[d].gen].shared = d

LinkOk(g) ==
    /\ st[g].connecting # NoConn => /\ dial[st[g].connecting].gen = g
                                    /\ Connecting(st[g].connecting)
    /\ st[g].shared # NoConn => /\ dial[st[g].shared].gen = g
                                /\ st[g].shared \in Installed \ cancelled

DialInv ==
    /\ \A d \in Conns : DialOk(d)
    /\ \A g \in Gens : LinkOk(g)
    /\ handed \subseteq Installed /\ cancelled \subseteq Installed

PoolInv == Types /\ StateInv /\ DialInv /\ ClaimedOnce

-----------------------------------------------------------------------------
\* Numbers of connections and states.
LEMMA Numbers == NoConn \notin Conns /\ Gens \subseteq Nat /\ 0 \in Gens
  BY PoolAssumption DEF NoConn, Conns, Gens

\* The state of a dial.
LEMMA GenOf == ASSUME DialInv, cur \in Gens PROVE \A d \in Conns : dial[d].gen \in Gens
<1>1. \A d \in Conns : dial[d].gen \in 0..cur
  BY DEF DialInv, DialOk
<1>2. 0..cur \subseteq Gens
  BY PoolAssumption DEF Gens
<1> QED BY <1>1, <1>2

\* A new pool.
LEMMA InitPool == Init => PoolInv /\ CallTypes /\ NoConnectionLost
<1> SUFFICES ASSUME Init PROVE PoolInv /\ CallTypes /\ NoConnectionLost
  OBVIOUS
<1>1. /\ \A g \in Gens : /\ DOMAIN st[g] = StateFields /\ st[g].all = {} /\ st[g].shared = NoConn
                         /\ st[g].connecting = NoConn /\ st[g].claimed = FALSE
                         /\ st[g].ended = FALSE /\ st[g].tear = "none"
      /\ DOMAIN st = Gens
  BY DEF Init, NewState, StateFields
<1>2. /\ \A d \in Conns : /\ DOMAIN dial[d] = DialFields /\ dial[d].pc = "unused"
                          /\ dial[d].gen = 0 /\ dial[d].ok = FALSE /\ dial[d].err = FALSE
      /\ DOMAIN dial = Conns
  BY DEF Init, DialFields
<1>3. /\ closed = FALSE /\ cur = 0 /\ connClosed = {} /\ cancelled = {} /\ handed = {}
      /\ DOMAIN claims = Conns /\ \A c \in Conns : claims[c] = 0
  BY DEF Init
<1>4. Types
  BY <1>1, <1>2, <1>3, Numbers DEF Types
<1>5. StateInv
  <2>1. \A g \in Gens : Untouched(g)
    BY <1>3, Numbers DEF Untouched
  <2> QED BY <1>1, <1>3, <2>1 DEF StateInv, StateOk, Gens
<1>6. DialInv
  <2>1. Installed = {} /\ \A d \in Conns : ~Connecting(d)
    BY <1>2 DEF Installed, Connecting
  <2>2. \A d \in Conns : dial[d].gen \in 0..cur
    BY <1>2, <1>3
  <2>3. \A g \in Gens : st[g].shared = NoConn /\ st[g].connecting = NoConn
    BY <1>1
  <2> QED BY <1>2, <1>3, <2>1, <2>2, <2>3 DEF DialInv, DialOk, LinkOk
<1>7. ClaimedOnce /\ NoConnectionLost
  BY <1>2, <1>3 DEF ClaimedOnce, NoConnectionLost
<1>8. CallTypes
  BY DEF Init, CallTypes, CallFields
<1> QED BY <1>4, <1>5, <1>6, <1>7, <1>8 DEF PoolInv

-----------------------------------------------------------------------------
(* The steps, by what they do to the states and dials of the pool *)

\* Nothing, but that a connection may be closed.
LEMMA SameStep ==
    ASSUME PoolInv, UNCHANGED <<closed, cur, st, dial, cancelled, handed, claims>>,
           connClosed \subseteq connClosed'
    PROVE  PoolInv'
<1>1. Types' /\ StateInv' /\ ClaimedOnce'
  BY DEF PoolInv, Types, StateInv, StateOk, ClaimedOnce, Untouched
<1>2. DialInv'
  BY DEF PoolInv, DialInv, DialOk, LinkOk, Connecting, Installed
<1> QED BY <1>1, <1>2 DEF PoolInv

\* What a step does to one state, and the rest of the states.
LEMMA StateChanged ==
    ASSUME Types, NEW g \in Gens, NEW e, st' = [st EXCEPT ![g] = e]
    PROVE  DOMAIN st' = Gens /\ st'[g] = e /\ \A h \in Gens \ {g} : st'[h] = st[h]
  BY DEF Types

\* The connection of the current state is returned to a caller.
LEMMA HandOutStep ==
    ASSUME PoolInv, NEW w, NEW c, c = st[cur].shared, c # NoConn, HandOut(w, c),
           UNCHANGED <<closed, cur, dial, connClosed, cancelled>>
    PROVE  /\ PoolInv'
           /\ st'[cur].shared = c /\ st'[cur].claimed = TRUE
           /\ \A g \in Gens : /\ st'[g].all = st[g].all /\ st'[g].ended = st[g].ended
                              /\ st'[g].tear = st[g].tear
<1>0. Types /\ StateInv /\ DialInv /\ ClaimedOnce /\ cur \in Gens
  BY DEF PoolInv, Types
<1> DEFINE e == [st[cur] EXCEPT !.claimed = TRUE]
<1>1. st' = [st EXCEPT ![cur] = e] /\ handed' = handed \union {c}
  BY DEF HandOut
<1>2. /\ DOMAIN e = StateFields /\ e.claimed = TRUE /\ e.all = st[cur].all
      /\ e.shared = st[cur].shared /\ e.connecting = st[cur].connecting
      /\ e.ended = st[cur].ended /\ e.tear = st[cur].tear
  BY <1>0 DEF Types, StateFields
<1> HIDE DEF e
<1>3. DOMAIN st' = Gens /\ st'[cur] = e /\ \A g \in Gens \ {cur} : st'[g] = st[g]
  BY <1>0, <1>1, StateChanged
<1>4. c \in Conns /\ dial[c].gen = cur /\ c \in Installed /\ (st[cur].claimed <=> c \in handed)
  BY <1>0 DEF StateInv, StateOk, DialInv, DialOk, LinkOk
<1>5. /\ DOMAIN claims' = Conns /\ \A d \in Conns \ {c} : claims'[d] = claims[d]
      /\ claims'[c] = IF st[cur].claimed THEN claims[c] ELSE claims[c] + 1
  BY <1>0, <1>4 DEF HandOut, Types
<1>6. Types'
  BY <1>0, <1>2, <1>3, <1>5 DEF Types
<1>7. \A g \in Gens \ {cur} : st[g].shared # c
  BY <1>0, <1>4 DEF DialInv, DialOk, LinkOk, StateInv, StateOk
<1>8. StateInv'
  <2>1. \A g \in Gens : Untouched(g)' <=> Untouched(g)
    BY DEF Untouched
  <2>2. \A g \in Gens : st'[g].shared \in handed' <=> g = cur \/ st[g].shared \in handed
    BY <1>1, <1>2, <1>3, <1>7
  <2> SUFFICES ASSUME NEW g \in Gens PROVE StateOk(g)'
    BY DEF StateInv
  <2>3. StateOk(g)
    BY <1>0 DEF StateInv
  <2>4. CASE g = cur
    BY <1>2, <1>3, <2>1, <2>2, <2>3, <2>4 DEF StateOk
  <2>5. CASE g # cur
    BY <1>3, <2>1, <2>2, <2>3, <2>5 DEF StateOk
  <2> QED BY <2>4, <2>5
<1>9. DialInv'
  <2>1. Installed' = Installed /\ \A d : Connecting(d)' <=> Connecting(d)
    BY DEF Installed, Connecting
  <2>2. \A g \in Gens : st'[g].shared = st[g].shared /\ st'[g].connecting = st[g].connecting
    BY <1>2, <1>3
  <2> QED BY <1>0, <1>1, <1>4, <2>1, <2>2 DEF DialInv, DialOk, LinkOk, Gens
<1>10. ClaimedOnce'
  BY <1>0, <1>1, <1>4, <1>5 DEF ClaimedOnce
<1> QED BY <1>2, <1>3, <1>6, <1>8, <1>9, <1>10 DEF PoolInv

\* removeConn of the connection of the current state.
LEMMA RemoveStep ==
    ASSUME PoolInv, NEW c, c = st[cur].shared, c # NoConn, RemoveConn(c),
           UNCHANGED <<closed, cur, dial, connClosed, handed, claims>>
    PROVE  /\ PoolInv' /\ c \in Conns
           /\ st'[cur].shared = NoConn /\ st'[cur].claimed = FALSE
           /\ st[cur].all = {c} /\ cancelled' = cancelled \union {c}
           /\ \A g \in Gens : /\ g # cur => st'[g] = st[g]
                              /\ st'[g].ended = st[g].ended /\ st'[g].tear = st[g].tear
<1>0. Types /\ StateInv /\ DialInv /\ ClaimedOnce /\ cur \in Gens
  BY DEF PoolInv, Types
<1> DEFINE e == [st[cur] EXCEPT !.all = st[cur].all \ {c}, !.shared = NoConn, !.claimed = FALSE]
<1>1. st' = [st EXCEPT ![cur] = e] /\ cancelled' = cancelled \union {c}
  BY DEF RemoveConn
<1>2. c \in Conns /\ dial[c].gen = cur /\ c \in Installed /\ st[cur].all = {c}
  BY <1>0 DEF StateInv, StateOk, DialInv, DialOk, LinkOk
<1>3. /\ DOMAIN e = StateFields /\ e.claimed = FALSE /\ e.all = {}
      /\ e.shared = NoConn /\ e.connecting = st[cur].connecting
      /\ e.ended = st[cur].ended /\ e.tear = st[cur].tear
  BY <1>0, <1>2 DEF Types, StateFields
<1> HIDE DEF e
<1>4. DOMAIN st' = Gens /\ st'[cur] = e /\ \A g \in Gens \ {cur} : st'[g] = st[g]
  BY <1>0, <1>1, StateChanged
<1>5. Types'
  BY <1>0, <1>3, <1>4 DEF Types
<1>6. handed \subseteq Conns
  BY <1>0 DEF DialInv, DialOk, LinkOk, Installed
<1>7. StateInv'
  <2>1. \A g \in Gens : Untouched(g)' <=> Untouched(g)
    BY DEF Untouched
  <2> SUFFICES ASSUME NEW g \in Gens PROVE StateOk(g)'
    BY DEF StateInv
  <2>2. CASE g = cur
    BY <1>0, <1>3, <1>4, <1>6, <2>1, <2>2, Numbers DEF StateInv, StateOk
  <2>3. CASE g # cur
    BY <1>0, <1>4, <2>1, <2>3 DEF StateInv, StateOk
  <2> QED BY <2>2, <2>3
<1>8. DialInv'
  <2>1. Installed' = Installed /\ \A d : Connecting(d)' <=> Connecting(d)
    BY DEF Installed, Connecting
  <2>2. \A g \in Gens : /\ st'[g].connecting = st[g].connecting
                        /\ st'[g].shared = IF g = cur THEN NoConn ELSE st[g].shared
    BY <1>3, <1>4
  <2>3. \A d \in Conns : dial[d].gen \in Gens
    BY <1>0, PoolAssumption DEF DialInv, DialOk, LinkOk, Types, Gens
  <2>4. \A d \in Conns : d \in Installed \ cancelled' => st'[dial[d].gen].shared = d
    BY <1>0, <1>1, <2>2, <2>3 DEF DialInv, DialOk, LinkOk
  <2>5. \A g \in Gens : st'[g].shared # NoConn => /\ dial[st'[g].shared].gen = g
                                                  /\ st'[g].shared \in Installed \ cancelled'
    BY <1>0, <1>1, <1>2, <2>2 DEF DialInv, DialOk, LinkOk
  <2> QED BY <1>0, <1>1, <1>2, <2>1, <2>2, <2>3, <2>4, <2>5 DEF DialInv, DialOk, LinkOk
<1>9. ClaimedOnce'
  BY <1>0 DEF ClaimedOnce
<1> QED BY <1>1, <1>2, <1>3, <1>4, <1>5, <1>7, <1>8, <1>9 DEF PoolInv

\* What a step does to one dial, and the rest of the dials.
LEMMA DialChanged ==
    ASSUME Types, NEW d \in Conns, NEW e, dial' = [dial EXCEPT ![d] = e]
    PROVE  DOMAIN dial' = Conns /\ dial'[d] = e /\ \A c \in Conns \ {d} : dial'[c] = dial[c]
  BY DEF Types

\* A caller that finds neither a connection nor a dial starts one.
LEMMA StartStep ==
    ASSUME PoolInv, NEW w, NEW d \in Conns, dial[d].pc = "unused",
           ~closed, st[cur].shared = NoConn, st[cur].connecting = NoConn,
           dial' = [dial EXCEPT ![d].pc = "dialing", ![d].gen = cur, ![d].owner = w],
           st' = [st EXCEPT ![cur].connecting = d],
           UNCHANGED <<closed, cur, connClosed, cancelled, handed, claims>>
    PROVE  /\ PoolInv' /\ Installed' = Installed
           /\ \A c \in Installed : dial'[c] = dial[c]
           /\ \A c \in Conns : dial'[c].ok = dial[c].ok
           /\ \A c \in Conns : dial[c].pc = "install" => dial'[c].pc = "install"
           /\ \A g \in Gens : /\ st'[g].all = st[g].all /\ st'[g].shared = st[g].shared
                              /\ st'[g].claimed = st[g].claimed
                              /\ st'[g].ended = st[g].ended /\ st'[g].tear = st[g].tear
<1>0. Types /\ StateInv /\ DialInv /\ ClaimedOnce /\ cur \in Gens
  BY DEF PoolInv, Types
<1> DEFINE e == [dial[d] EXCEPT !.pc = "dialing", !.gen = cur, !.owner = w]
           s == [st[cur] EXCEPT !.connecting = d]
<1>1. dial' = [dial EXCEPT ![d] = e] /\ st' = [st EXCEPT ![cur] = s]
  OBVIOUS
<1>2. /\ DOMAIN e = DialFields /\ e.pc = "dialing" /\ e.gen = cur
      /\ e.ok = dial[d].ok /\ e.err = dial[d].err
  BY <1>0 DEF Types, DialFields
<1>3. /\ DOMAIN s = StateFields /\ s.connecting = d /\ s.all = st[cur].all
      /\ s.shared = st[cur].shared /\ s.claimed = st[cur].claimed
      /\ s.ended = st[cur].ended /\ s.tear = st[cur].tear
  BY <1>0 DEF Types, StateFields
<1> HIDE DEF e, s
<1>4. DOMAIN st' = Gens /\ st'[cur] = s /\ \A g \in Gens \ {cur} : st'[g] = st[g]
  BY <1>0, <1>1, StateChanged
<1>5. DOMAIN dial' = Conns /\ dial'[d] = e /\ \A c \in Conns \ {d} : dial'[c] = dial[c]
  BY <1>0, <1>1, DialChanged
<1>6. Installed' = Installed /\ d \notin Installed
  BY <1>2, <1>5 DEF Installed
<1>7. Types'
  BY <1>0, <1>2, <1>3, <1>4, <1>5 DEF Types
<1>8. StateInv'
  <2>1. \A g \in Gens : Untouched(g)' <=> Untouched(g)
    BY DEF Untouched
  <2> SUFFICES ASSUME NEW g \in Gens PROVE StateOk(g)'
    BY DEF StateInv
  <2>2. CASE g = cur
    BY <1>0, <1>3, <1>4, <2>1, <2>2, Numbers DEF StateInv, StateOk
  <2>3. CASE g # cur
    BY <1>0, <1>4, <2>1, <2>3 DEF StateInv, StateOk
  <2> QED BY <2>2, <2>3
<1>9. DialInv'
  <2>1. \A g \in Gens : /\ st'[g].shared = st[g].shared
                        /\ st'[g].connecting = IF g = cur THEN d ELSE st[g].connecting
    BY <1>3, <1>4
  <2>2. \A c \in Conns : /\ c # d => (Connecting(c)' <=> Connecting(c))
                         /\ Connecting(d)' /\ ~Connecting(d)
    BY <1>2, <1>5 DEF Connecting
  <2>3. \A c \in Conns : dial[c].gen \in Gens /\ cur \in 0..cur
    BY <1>0, PoolAssumption DEF DialInv, DialOk, LinkOk, Types, Gens
  <2>4. ASSUME NEW c \in Conns PROVE DialOk(c)'
    <3>1. CASE c = d
      BY <1>0, <1>2, <1>5, <1>6, <2>1, <2>3, <3>1 DEF DialInv, DialOk, LinkOk
    <3>2. CASE c # d
      BY <1>0, <1>5, <1>6, <2>1, <2>2, <2>3, <3>2, Numbers DEF DialInv, DialOk, LinkOk
    <3> QED BY <3>1, <3>2
  <2>5. ASSUME NEW g \in Gens PROVE LinkOk(g)'
    BY <1>0, <1>2, <1>5, <1>6, <2>1, <2>2 DEF DialInv, DialOk, LinkOk, StateInv, StateOk
  <2> QED BY <1>0, <1>6, <2>4, <2>5 DEF DialInv
<1>10. ClaimedOnce'
  BY <1>0 DEF ClaimedOnce
<1>11. \A c \in Installed : dial'[c] = dial[c]
  BY <1>5, <1>6 DEF Installed
<1>12. /\ \A c \in Conns : dial'[c].ok = dial[c].ok
       /\ \A c \in Conns : dial[c].pc = "install" => dial'[c].pc = "install"
       /\ \A g \in Gens : /\ st'[g].all = st[g].all /\ st'[g].shared = st[g].shared
                          /\ st'[g].claimed = st[g].claimed
                          /\ st'[g].ended = st[g].ended /\ st'[g].tear = st[g].tear
  BY <1>2, <1>3, <1>4, <1>5
<1> QED BY <1>6, <1>7, <1>8, <1>9, <1>10, <1>11, <1>12 DEF PoolInv

\* A dial returns, or is done: the states of the pool are as they were.
LEMMA GoesOnStep ==
    ASSUME PoolInv, NEW d \in Conns, NEW e, dial' = [dial EXCEPT ![d] = e],
           DOMAIN e = DialFields, e.gen = dial[d].gen, e.err \in BOOLEAN,
           \/ dial[d].pc = "dialing" /\ e.pc = "install"
           \/ dial[d].pc = "finish" /\ e.pc = "done" /\ e.err = dial[d].err,
           e.pc = "install" /\ e.ok /\ e.err => d \in connClosed',
           connClosed \subseteq connClosed',
           UNCHANGED <<closed, cur, st, cancelled, handed, claims>>
    PROVE  PoolInv' /\ Installed' = Installed /\ \A c \in Conns : dial'[c].gen = dial[c].gen
<1>0. Types /\ StateInv /\ DialInv /\ ClaimedOnce /\ cur \in Gens
  BY DEF PoolInv, Types
<1>1. DOMAIN dial' = Conns /\ dial'[d] = e /\ \A c \in Conns \ {d} : dial'[c] = dial[c]
  BY <1>0, DialChanged
<1>2. Installed' = Installed /\ \A c \in Conns : Connecting(c)' <=> Connecting(c)
  BY <1>1 DEF Installed, Connecting
<1>3. Types'
  BY <1>0, <1>1 DEF Types
<1>4. StateInv' /\ ClaimedOnce'
  BY <1>0 DEF StateInv, StateOk, ClaimedOnce, Untouched
<1>5. ASSUME NEW c \in Conns PROVE DialOk(c)'
  <2>1. CASE c = d
    BY <1>0, <1>1, <1>2, <2>1 DEF DialInv, DialOk
  <2>2. CASE c # d
    BY <1>0, <1>1, <1>2, <2>2 DEF DialInv, DialOk
  <2> QED BY <2>1, <2>2
<1>6. ASSUME NEW g \in Gens PROVE LinkOk(g)'
  BY <1>0, <1>1, <1>2 DEF DialInv, LinkOk, StateInv, StateOk
<1>7. DialInv'
  BY <1>0, <1>2, <1>5, <1>6 DEF DialInv
<1> QED BY <1>1, <1>2, <1>3, <1>4, <1>7 DEF PoolInv

\* What it does, when the dial has failed or comes late and when not.
InstallEffect(d, g, fails) ==
    /\ Installed' = IF fails THEN Installed ELSE Installed \union {d}
    /\ d \notin Installed /\ st[g].shared = NoConn /\ st[g].claimed = FALSE
    /\ \A c \in Installed : dial'[c] = dial[c]
    /\ \A c \in Conns : dial'[c].ok = dial[c].ok
    /\ \A c \in Conns \ {d} : dial'[c] = dial[c]
    /\ dial'[d].gen = dial[d].gen
    /\ \A h \in Gens : /\ st[h].all \subseteq st'[h].all
                       /\ h # g => st'[h] = st[h]
                       /\ st'[h].ended = st[h].ended /\ st'[h].tear = st[h].tear
    /\ IF fails THEN st'[g].shared = st[g].shared
                ELSE st'[g].shared = d /\ d \in st'[g].all
    /\ st'[g].claimed = st[g].claimed

\* The locked part of connectSingle: in both outcomes the state is not connecting
\* any more; n is the connection it has then.
LEMMA InstallStep ==
    ASSUME PoolInv, NEW d \in Conns, DialInstall(d), NEW g \in Gens, g = dial[d].gen,
           NEW fails \in BOOLEAN, fails = (dial[d].err \/ closed \/ g # cur)
    PROVE  PoolInv' /\ InstallEffect(d, g, fails)
<1>0. Types /\ StateInv /\ DialInv /\ ClaimedOnce /\ cur \in Gens /\ dial[d].pc = "install"
  BY DEF PoolInv, Types, DialInstall
<1> DEFINE e == [dial[d] EXCEPT !.pc = "finish", !.err = dial[d].err \/ (closed \/ g # cur)]
           s == IF fails THEN [st[g] EXCEPT !.connecting = NoConn]
                ELSE [st[g] EXCEPT !.connecting = NoConn, !.shared = d,
                                   !.all = st[g].all \union {d}]
<1> /\ dial' = [dial EXCEPT ![d] = e] /\ st' = [st EXCEPT ![g] = s]
    /\ connClosed \subseteq connClosed'
    /\ UNCHANGED <<closed, cur, cancelled, handed, claims>>
  BY DEF DialInstall
<1> /\ DOMAIN e = DialFields /\ e.gen = dial[d].gen /\ e.pc = "finish" /\ e.ok = dial[d].ok
    /\ e.err = fails
  BY <1>0 DEF Types, DialFields
<1> /\ DOMAIN s = StateFields /\ s.connecting = NoConn /\ s.claimed = st[g].claimed
    /\ s.ended = st[g].ended /\ s.tear = st[g].tear
    /\ IF fails THEN s.shared = st[g].shared /\ s.all = st[g].all
                ELSE s.shared = d /\ s.all = st[g].all \union {d}
  BY <1>0 DEF Types, StateFields
<1> HIDE DEF e, s
<1>1. DOMAIN dial' = Conns /\ dial'[d] = e /\ \A c \in Conns \ {d} : dial'[c] = dial[c]
  BY <1>0, DialChanged
<1>2. DOMAIN st' = Gens /\ st'[g] = s /\ \A h \in Gens \ {g} : st'[h] = st[h]
  BY <1>0, StateChanged
<1>3. /\ Installed' = IF fails THEN Installed ELSE Installed \union {d}
      /\ d \notin Installed /\ Connecting(d) /\ ~Connecting(d)'
      /\ \A c \in Conns \ {d} : Connecting(c)' <=> Connecting(c)
  <2>1. dial[d].pc = "install"
    BY <1>0
  <2> QED BY <1>1, <2>1 DEF Installed, Connecting
<1>4. handed \subseteq Installed /\ cancelled \subseteq Installed /\ NoConn \notin handed
  BY <1>0, Numbers DEF DialInv, Installed
<1>5. /\ st[g].connecting = d /\ st[g].shared = NoConn /\ st[g].claimed = FALSE /\ st[g].all = {}
      /\ g <= cur
  <2>1. st[g].connecting = d /\ g <= cur
    BY <1>0, <1>3, Numbers DEF DialInv, DialOk
  <2>2. st[g].shared = NoConn
    BY <1>0, <2>1, Numbers DEF StateInv, StateOk
  <2> QED BY <1>0, <1>4, <2>1, <2>2 DEF StateInv, StateOk
<1>6. \A h \in Gens \ {g} : st[h].connecting # d /\ st[h].shared # d
  BY <1>0, <1>3, Numbers DEF DialInv, LinkOk
<1>7. Types'
  BY <1>0, <1>1, <1>2 DEF Types
<1>8. ASSUME NEW h \in Gens PROVE StateOk(h)'
  <2>1. Untouched(h)' <=> Untouched(h)
    BY DEF Untouched
  <2>2. CASE h = g
    <3>1. s.shared = NoConn \/ s.shared = d
      BY <1>5
    <3>2. s.shared \notin handed
      BY <1>3, <1>4, <3>1
    <3>3. s.all = {s.shared} \ {NoConn}
      BY <1>5, Numbers
    <3>4. StateOk(g)
      BY <1>0 DEF StateInv
    <3>5. ~(g > cur)
      BY <1>0, <1>5, Numbers
    <3> QED BY <1>2, <1>5, <2>1, <2>2, <3>1, <3>2, <3>3, <3>4, <3>5 DEF StateOk
  <2>3. CASE h # g
    BY <1>0, <1>2, <2>1, <2>3 DEF StateInv, StateOk
  <2> QED BY <2>2, <2>3
<1>9. ASSUME NEW c \in Conns PROVE DialOk(c)'
  <2>1. CASE c = d
    BY <1>0, <1>1, <1>2, <1>3, <2>1 DEF DialInv, DialOk
  <2>2. CASE c # d
    <3>1. dial[c].gen \in Gens /\ dial'[c] = dial[c]
      BY <1>0, <1>1, <2>2, GenOf
    <3>2. Connecting(c) => dial[c].gen # g
      BY <1>0, <1>5, <2>2 DEF DialInv, DialOk
    <3>3. c \in Installed \ cancelled => dial[c].gen # g
      BY <1>0, <1>5, Numbers DEF DialInv, DialOk
    <3>4. DialOk(c)
      BY <1>0 DEF DialInv
    <3>5. (Connecting(c)' <=> Connecting(c)) /\ (c \in Installed' <=> c \in Installed)
      BY <1>3, <2>2
    <3> QED BY <1>2, <3>1, <3>2, <3>3, <3>4, <3>5 DEF DialOk
  <2> QED BY <2>1, <2>2
<1>10. ASSUME NEW h \in Gens PROVE LinkOk(h)'
  <2>1. CASE h = g
    BY <1>1, <1>2, <1>3, <1>4, <1>5, <2>1 DEF LinkOk
  <2>2. CASE h # g
    <3>1. LinkOk(h) /\ StateOk(h)
      BY <1>0 DEF DialInv, StateInv
    <3>2. st'[h] = st[h] /\ st[h].connecting # d /\ st[h].shared # d
      BY <1>2, <1>6, <2>2
    <3>3. st[h].connecting \in Conns \union {NoConn} /\ st[h].shared \in Conns \union {NoConn}
      BY <3>1 DEF StateOk
    <3>4. st[h].connecting # NoConn => /\ dial'[st[h].connecting].gen = h
                                       /\ Connecting(st[h].connecting)'
      BY <1>1, <1>3, <3>1, <3>2, <3>3 DEF LinkOk, Connecting
    <3>5. st[h].shared # NoConn => /\ dial'[st[h].shared].gen = h
                                   /\ st[h].shared \in Installed' \ cancelled'
      BY <1>1, <1>3, <3>1, <3>2, <3>3 DEF LinkOk
    <3> QED BY <3>2, <3>4, <3>5 DEF LinkOk, Connecting
  <2> QED BY <2>1, <2>2
<1>11. ClaimedOnce'
  BY <1>0 DEF ClaimedOnce
<1>12. PoolInv'
  BY <1>3, <1>4, <1>7, <1>8, <1>9, <1>10, <1>11 DEF PoolInv, StateInv, DialInv
<1>13. \A c \in Installed : dial'[c] = dial[c]
  BY <1>1, <1>3 DEF Installed
<1> QED BY <1>1, <1>2, <1>3, <1>5, <1>12, <1>13 DEF InstallEffect

\* Reset and Close: the state is left to closeState.
LEMMA ReplaceStep ==
    ASSUME PoolInv, ~closed, st' = [st EXCEPT ![cur].tear = "due"],
           \/ closed' = TRUE /\ cur' = cur
           \/ closed' = FALSE /\ cur' = cur + 1 /\ cur < MaxResets,
           UNCHANGED <<dial, connClosed, cancelled, handed, claims>>
    PROVE  /\ PoolInv'
           /\ cur' # cur => st'[cur'].shared = NoConn /\ st'[cur'].claimed = FALSE
           /\ st'[cur].tear = "due"
           /\ \A g \in Gens : /\ st'[g].all = st[g].all /\ st'[g].ended = st[g].ended
                              /\ st[g].tear = "due" => st'[g].tear = "due"
<1>0. Types /\ StateInv /\ DialInv /\ ClaimedOnce /\ cur \in Gens
  BY DEF PoolInv, Types
<1>1. cur \in Nat /\ cur' \in Nat /\ cur <= cur' /\ cur' \in Gens /\ closed' \in BOOLEAN
  <2>1. cur \in Nat /\ MaxResets \in Nat /\ Gens = 0..MaxResets
    BY <1>0, PoolAssumption DEF Gens
  <2>2. cur' = cur \/ (cur' = cur + 1 /\ cur < MaxResets)
    OBVIOUS
  <2>3. cur' \in Nat /\ cur <= cur' /\ cur' \in 0..MaxResets
    BY <1>0, <2>1, <2>2
  <2> QED BY <2>1, <2>3
<1> DEFINE s == [st[cur] EXCEPT !.tear = "due"]
<1>2. st' = [st EXCEPT ![cur] = s]
  OBVIOUS
<1>3. /\ DOMAIN s = StateFields /\ s.tear = "due" /\ s.all = st[cur].all
      /\ s.shared = st[cur].shared /\ s.claimed = st[cur].claimed
      /\ s.connecting = st[cur].connecting /\ s.ended = st[cur].ended
  BY <1>0 DEF Types, StateFields
<1> HIDE DEF s
<1>4. DOMAIN st' = Gens /\ st'[cur] = s /\ \A g \in Gens \ {cur} : st'[g] = st[g]
  BY <1>0, <1>2, StateChanged
<1>5. \A g \in Gens : /\ st'[g].all = st[g].all /\ st'[g].ended = st[g].ended
                      /\ st'[g].shared = st[g].shared /\ st'[g].claimed = st[g].claimed
                      /\ st'[g].connecting = st[g].connecting
                      /\ st[g].tear = "due" => st'[g].tear = "due"
  BY <1>3, <1>4
<1>6. Types'
  BY <1>0, <1>1, <1>3, <1>4 DEF Types
<1>7. NoConn \notin handed
  BY <1>0, Numbers DEF DialInv, Installed
<1>8. ~st[cur].ended
  BY <1>0 DEF StateInv, StateOk, Untouched
<1>9. ASSUME NEW g \in Gens PROVE StateOk(g)'
  <2>1. g \in Nat
    BY Numbers
  <2>2. CASE g = cur
    <3>1. ~Untouched(g)'
      BY <1>1, <2>2 DEF Untouched
    <3> QED BY <1>0, <1>1, <1>3, <1>4, <1>8, <2>1, <2>2, <3>1 DEF StateInv, StateOk
  <2>3. CASE g # cur
    <3>1. Untouched(g)' <=> Untouched(g)
      BY <1>1, <2>1, <2>3 DEF Untouched
    <3>2. g > cur' => g > cur
      BY <1>1, <2>1
    <3> QED BY <1>0, <1>4, <2>3, <3>1, <3>2 DEF StateInv, StateOk
  <2> QED BY <2>2, <2>3
<1>10. Installed' = Installed /\ \A c : Connecting(c)' <=> Connecting(c)
  BY DEF Installed, Connecting
<1>11. ASSUME NEW c \in Conns PROVE DialOk(c)'
  <2>1. dial[c].gen \in Gens /\ dial[c].gen \in 0..cur'
    BY <1>0, <1>1, PoolAssumption DEF DialInv, DialOk, Gens
  <2> QED BY <1>0, <1>5, <1>10, <2>1 DEF DialInv, DialOk
<1>12. ASSUME NEW g \in Gens PROVE LinkOk(g)'
  BY <1>0, <1>5, <1>10 DEF DialInv, LinkOk
<1>13. ClaimedOnce'
  BY <1>0 DEF ClaimedOnce
<1>14. PoolInv'
  BY <1>0, <1>6, <1>9, <1>10, <1>11, <1>12, <1>13 DEF PoolInv, StateInv, DialInv
<1>15. cur' # cur => st'[cur'].shared = NoConn /\ st'[cur'].claimed = FALSE
  <2>1. cur' # cur => cur' > cur
    BY <1>1
  <2> QED BY <1>0, <1>1, <1>5, <1>7, <2>1 DEF StateInv, StateOk
<1> QED BY <1>3, <1>4, <1>5, <1>14, <1>15

\* closeState of a state that was replaced.
LEMMA CloseStateStep ==
    ASSUME PoolInv, NEW g \in Gens, CloseState(g)
    PROVE  /\ PoolInv' /\ ~Untouched(g) /\ st'[g].ended = TRUE
           /\ \A h \in Gens : /\ st'[h].all = st[h].all /\ (h # g => st'[h] = st[h])
                              /\ st'[h].shared = st[h].shared /\ st'[h].claimed = st[h].claimed
<1>0. Types /\ StateInv /\ DialInv /\ ClaimedOnce /\ cur \in Gens
  BY DEF PoolInv, Types
<1> DEFINE s == [st[g] EXCEPT !.tear = "done", !.ended = TRUE]
<1>1. /\ st' = [st EXCEPT ![g] = s] /\ st[g].tear = "due" /\ connClosed \subseteq connClosed'
      /\ UNCHANGED <<closed, cur, dial, cancelled, handed, claims>>
  BY DEF CloseState
<1>2. /\ DOMAIN s = StateFields /\ s.tear = "done" /\ s.all = st[g].all
      /\ s.shared = st[g].shared /\ s.claimed = st[g].claimed
      /\ s.connecting = st[g].connecting /\ s.ended = TRUE
  BY <1>0 DEF Types, StateFields
<1> HIDE DEF s
<1>3. DOMAIN st' = Gens /\ st'[g] = s /\ \A h \in Gens \ {g} : st'[h] = st[h]
  BY <1>0, <1>1, StateChanged
<1>4. \A h \in Gens : /\ st'[h].all = st[h].all /\ (h # g => st'[h] = st[h])
                      /\ st'[h].shared = st[h].shared /\ st'[h].claimed = st[h].claimed
                      /\ st'[h].connecting = st[h].connecting
  BY <1>2, <1>3
<1>5. ~Untouched(g) /\ \A h \in Gens : Untouched(h)' <=> Untouched(h)
  BY <1>0, <1>1 DEF StateInv, StateOk, Untouched
<1>6. Types'
  BY <1>0, <1>1, <1>2, <1>3 DEF Types
<1>7. ASSUME NEW h \in Gens PROVE StateOk(h)'
  <2>1. CASE h = g
    BY <1>0, <1>1, <1>2, <1>3, <1>5, <2>1 DEF StateInv, StateOk
  <2>2. CASE h # g
    BY <1>0, <1>1, <1>3, <1>5, <2>2 DEF StateInv, StateOk
  <2> QED BY <2>1, <2>2
<1>8. Installed' = Installed /\ \A c : Connecting(c)' <=> Connecting(c)
  BY <1>1 DEF Installed, Connecting
<1>9. ASSUME NEW c \in Conns PROVE DialOk(c)'
  <2>1. dial[c].gen \in Gens
    BY <1>0, GenOf
  <2> QED BY <1>0, <1>1, <1>4, <1>8, <2>1 DEF DialInv, DialOk
<1>10. ASSUME NEW h \in Gens PROVE LinkOk(h)'
  <2>1. LinkOk(h)
    BY <1>0 DEF DialInv
  <2> QED BY <1>1, <1>4, <1>8, <2>1 DEF LinkOk, Connecting
<1>11. ClaimedOnce'
  BY <1>0, <1>1 DEF ClaimedOnce
<1>12. PoolInv'
  BY <1>0, <1>1, <1>6, <1>7, <1>8, <1>9, <1>10, <1>11 DEF PoolInv, StateInv, DialInv
<1> QED BY <1>2, <1>3, <1>4, <1>5, <1>12

-----------------------------------------------------------------------------
(* What a caller may do *)

\* Everything that a caller does: it changes its own record, and whoever was to
\* close a connection has closed it.
OwnCall(w) ==
    /\ DOMAIN call' = Callers /\ DOMAIN call'[w] = CallFields
    /\ \A v \in Callers \ {w} : call'[v] = call[v]
    /\ call[w].pc \in {"drop", "close"} => call[w].conn \in connClosed'
    /\ connClosed \subseteq connClosed'

StartsDial(w) ==
    /\ ~closed /\ st[cur].shared = NoConn /\ st[cur].connecting = NoConn
    /\ \E d \in Conns :
         /\ dial[d].pc = "unused"
         /\ dial' = [dial EXCEPT ![d].pc = "dialing", ![d].gen = cur, ![d].owner = w]
         /\ st' = [st EXCEPT ![cur].connecting = d]
    /\ UNCHANGED <<closed, cur, connClosed, cancelled, handed, claims>>

HandsOut(w) ==
    /\ ~closed /\ st[cur].shared # NoConn /\ HandOut(w, st[cur].shared)
    /\ UNCHANGED <<closed, cur, dial, connClosed, cancelled>>

Removes(w) ==
    /\ ~closed /\ st[cur].shared # NoConn /\ RemoveConn(st[cur].shared)
    /\ call'[w].conn = st[cur].shared /\ call'[w].pc \in {"drop", "close"}
    /\ UNCHANGED <<closed, cur, dial, connClosed, handed, claims>>

Stays == UNCHANGED <<closed, cur, st, dial, cancelled, handed, claims>>

\* The three ways in which a caller's record changes.
LEMMA CallChanged ==
    ASSUME CallTypes, NEW w \in Callers, NEW p, NEW c,
           \/ call' = call \/ GoOn(w, p) \/ Leave(w, p)
           \/ call' = [call EXCEPT ![w].pc = p, ![w].conn = c]
           \/ call' = [call EXCEPT ![w] = [pc |-> p, gen |-> cur, conn |-> c]]
    PROVE  /\ DOMAIN call' = Callers /\ DOMAIN call'[w] = CallFields
           /\ \A v \in Callers \ {w} : call'[v] = call[v]
           /\ GoOn(w, p) => call'[w].pc = p /\ call'[w].conn = call[w].conn
           /\ call' = [call EXCEPT ![w].pc = p, ![w].conn = c] => call'[w].pc = p /\ call'[w].conn = c
<1>1. DOMAIN call = Callers /\ DOMAIN call[w] = CallFields
  BY DEF CallTypes
<1>2. /\ DOMAIN call' = Callers /\ DOMAIN call'[w] = CallFields
      /\ \A v \in Callers \ {w} : call'[v] = call[v]
  BY <1>1 DEF GoOn, Leave, CallFields
<1>3. /\ GoOn(w, p) => call'[w].pc = p /\ call'[w].conn = call[w].conn
      /\ call' = [call EXCEPT ![w].pc = p, ![w].conn = c] => call'[w].pc = p /\ call'[w].conn = c
  BY <1>1 DEF GoOn, CallFields
<1> QED BY <1>2, <1>3

\* acquireShared.
LEMMA AcquireMoves ==
    ASSUME CallTypes, NEW w \in Callers, Acquire(w)
    PROVE  OwnCall(w) /\ (Stays \/ StartsDial(w) \/ HandsOut(w) \/ Removes(w))
<1>1. CASE LookClosed(w)
  BY <1>1, CallChanged DEF LookClosed, At, connVars, OwnCall, Stays
<1>2. CASE LookShared(w)
  <2>1. PICK c : c = st[cur].shared
    OBVIOUS
  <2>2. /\ call[w].pc = "look" /\ ~closed /\ c # NoConn /\ UNCHANGED <<closed, cur, dial, connClosed>>
        /\ \/ HandOut(w, c) /\ UNCHANGED cancelled
           \/ /\ RemoveConn(c) /\ call' = [call EXCEPT ![w].pc = "drop", ![w].conn = c]
              /\ UNCHANGED <<handed, claims>>
    BY <1>2, <2>1 DEF LookShared, At
  <2>3. CASE HandOut(w, c) /\ UNCHANGED cancelled
    <3>1. call' = [call EXCEPT ![w].pc = "held", ![w].conn = c]
      BY <2>3 DEF HandOut
    <3>2. OwnCall(w)
      BY <2>2, <3>1, CallChanged DEF OwnCall
    <3> QED BY <2>1, <2>2, <2>3, <3>2 DEF HandsOut
  <2>4. CASE /\ RemoveConn(c) /\ call' = [call EXCEPT ![w].pc = "drop", ![w].conn = c]
             /\ UNCHANGED <<handed, claims>>
    <3>1. OwnCall(w) /\ call'[w].pc = "drop" /\ call'[w].conn = c
      BY <2>2, <2>4, CallChanged DEF OwnCall
    <3> QED BY <2>1, <2>2, <2>4, <3>1 DEF Removes
  <2> QED BY <2>2, <2>3, <2>4
<1>3. CASE LookNone(w)
  <2>1. PICK c : call' = [call EXCEPT ![w] = [pc |-> "wait", gen |-> cur, conn |-> c]]
    BY <1>3 DEF LookNone
  <2>2. /\ call[w].pc = "look" /\ ~closed /\ st[cur].shared = NoConn
        /\ UNCHANGED <<closed, cur, connClosed, cancelled, handed, claims>>
    BY <1>3 DEF LookNone, At, connVars
  <2>3. OwnCall(w)
    BY <2>1, <2>2, CallChanged DEF OwnCall
  <2>4. Stays \/ StartsDial(w)
    BY <1>3, <2>2 DEF LookNone, Stays, StartsDial
  <2> QED BY <2>3, <2>4
<1>4. CASE Wait(w)
  BY <1>4, CallChanged DEF Wait, At, connVars, OwnCall, Stays
<1>5. CASE Collect(w)
  <2>1. PICK c : c = st[cur].shared
    OBVIOUS
  <2>2. call[w].pc = "collect" /\ UNCHANGED <<closed, cur, dial, connClosed>>
    BY <1>5 DEF Collect, At
  <2>3. \/ (\E p : Leave(w, p)) /\ UNCHANGED <<st, cancelled, handed, claims>>
        \/ ~closed /\ c # NoConn /\ HandOut(w, c) /\ UNCHANGED cancelled
        \/ /\ ~closed /\ c # NoConn /\ RemoveConn(c)
           /\ call' = [call EXCEPT ![w].pc = "drop", ![w].conn = c]
           /\ UNCHANGED <<handed, claims>>
    BY <1>5, <2>1 DEF Collect
  <2>4. CASE (\E p : Leave(w, p)) /\ UNCHANGED <<st, cancelled, handed, claims>>
    BY <2>2, <2>4, CallChanged DEF OwnCall, Stays
  <2>5. CASE ~closed /\ c # NoConn /\ HandOut(w, c) /\ UNCHANGED cancelled
    <3>1. call' = [call EXCEPT ![w].pc = "held", ![w].conn = c]
      BY <2>5 DEF HandOut
    <3>2. OwnCall(w)
      BY <2>2, <3>1, CallChanged DEF OwnCall
    <3> QED BY <2>1, <2>2, <2>5, <3>2 DEF HandsOut
  <2>6. CASE /\ ~closed /\ c # NoConn /\ RemoveConn(c)
             /\ call' = [call EXCEPT ![w].pc = "drop", ![w].conn = c]
             /\ UNCHANGED <<handed, claims>>
    <3>1. OwnCall(w) /\ call'[w].pc = "drop" /\ call'[w].conn = c
      BY <2>2, <2>6, CallChanged DEF OwnCall
    <3> QED BY <2>1, <2>2, <2>6, <3>1 DEF Removes
  <2> QED BY <2>3, <2>4, <2>5, <2>6
<1>6. CASE Drop(w)
  BY <1>6, CallChanged DEF Drop, At, OwnCall, Stays
<1> QED BY <1>1, <1>2, <1>3, <1>4, <1>5, <1>6 DEF Acquire

\* What follows it.
LEMMA UseMoves ==
    ASSUME CallTypes, PoolInv, NEW w \in Callers,
           Release(w) \/ Invalidate(w) \/ CloseConn(w) \/ CancelCtx(w)
    PROVE  OwnCall(w) /\ (Stays \/ Removes(w))
<1>0. \A c \in st[cur].all : c = st[cur].shared /\ c # NoConn
  BY DEF PoolInv, Types, StateInv, StateOk
<1>1. CASE Release(w) \/ Invalidate(w)
  <2>1. PICK c : c = call[w].conn
    OBVIOUS
  <2>2. call[w].pc = "held" /\ UNCHANGED <<closed, cur, dial, connClosed, handed, claims>>
    BY <1>1 DEF Release, Invalidate, At
  <2>3. \/ (GoOn(w, "close") \/ Leave(w, "gone")) /\ UNCHANGED <<st, cancelled>>
        \/ ~closed /\ c \in st[cur].all /\ RemoveConn(c) /\ GoOn(w, "close")
    BY <1>1, <2>1 DEF Release, Invalidate
  <2> QED BY <1>0, <2>1, <2>2, <2>3, CallChanged DEF OwnCall, Stays, Removes
<1>2. CASE CloseConn(w)
  BY <1>2, CallChanged DEF CloseConn, At, OwnCall, Stays
<1>3. CASE CancelCtx(w)
  BY <1>3, CallChanged DEF CancelCtx, At, connVars, OwnCall, Stays
<1> QED BY <1>1, <1>2, <1>3

-----------------------------------------------------------------------------
(* The promise of SharedConn *)

Shared == IF closed THEN NoConn ELSE st[cur].shared

Claimed == ~closed /\ st[cur].claimed

Ended == {c \in Installed : c \in cancelled \/ st[dial[c].gen].ended}

\* A step that SharedConn does not see.
LEMMA MapSame ==
    ASSUME Shared' = Shared, Claimed' = Claimed, Installed' = Installed, Ended' = Ended
    PROVE  UNCHANGED S!poolVars
  BY DEF S!poolVars, Shared, Claimed, Ended

\* What SharedConn sees of a step that changes no dial it knows of, nor the end of
\* a context.
LEMMA EndedSame ==
    ASSUME DialInv, cur \in Gens, Installed' = Installed, UNCHANGED cancelled,
           \A c \in Installed : dial'[c].gen = dial[c].gen,
           \A g \in Gens : st'[g].ended = st[g].ended
    PROVE  Ended' = Ended
<1>1. \A c \in Installed : dial[c].gen \in Gens
  BY GenOf DEF Installed
<1> QED BY <1>1 DEF Ended

\* No connection is lost in a step that closes, keeps or hands over each.
LEMMA LostKept ==
    ASSUME NoConnectionLost, connClosed \subseteq connClosed',
           \A c \in Conns : dial'[c].ok => dial[c].ok \/ dial'[c].pc = "install",
           \A c \in Conns : dial[c].pc = "install" /\ dial'[c].ok =>
             \/ dial'[c].pc = "install" \/ c \in connClosed'
             \/ ~closed' /\ cur' \in Gens /\ c \in st'[cur'].all,
           \A w \in Callers : call[w].pc \in {"drop", "close"} =>
             call'[w] = call[w] \/ call[w].conn \in connClosed',
           \A c \in Conns, g \in Gens :
             c \in st[g].all /\ ((~closed /\ g = cur) \/ st[g].tear = "due") =>
               \/ c \in connClosed'
               \/ c \in st'[g].all /\ ((~closed' /\ g = cur') \/ st'[g].tear = "due")
               \/ \E w \in Callers : call'[w].conn = c /\ call'[w].pc \in {"drop", "close"}
    PROVE  NoConnectionLost'
<1> SUFFICES ASSUME NEW c \in Conns, dial'[c].ok
             PROVE  \/ c \in connClosed' \/ Dropping(c)'
                    \/ \E g \in Gens : /\ c \in st'[g].all
                                       /\ (~closed' /\ g = cur') \/ st'[g].tear = "due"
  BY DEF NoConnectionLost
<1>1. CASE dial'[c].pc = "install"
  BY <1>1 DEF Dropping
<1>2. CASE dial[c].pc = "install"
  BY <1>2 DEF Dropping
<1>3. CASE \E w \in Callers : call[w].conn = c /\ call[w].pc \in {"drop", "close"}
  BY <1>3 DEF Dropping
<1>4. CASE \E g \in Gens : c \in st[g].all /\ ((~closed /\ g = cur) \/ st[g].tear = "due")
  BY <1>4 DEF Dropping
<1> QED BY <1>1, <1>2, <1>3, <1>4 DEF NoConnectionLost, Dropping

AllInv == PoolInv /\ CallTypes /\ NoConnectionLost

Implements == S!PoolNext \/ UNCHANGED S!poolVars

\* A caller that changes neither the states nor the dials.
LEMMA CallerStays == ASSUME AllInv, NEW w \in Callers, OwnCall(w), Stays
                     PROVE  AllInv' /\ Implements
<1>1. PoolInv'
  BY SameStep DEF AllInv, OwnCall, Stays
<1>2. CallTypes'
  BY DEF AllInv, CallTypes, OwnCall
<1>3. NoConnectionLost'
  <2>1. UNCHANGED <<closed, cur, st, dial>> /\ connClosed \subseteq connClosed'
    BY DEF Stays, OwnCall
  <2>2. \A v \in Callers : call[v].pc \in {"drop", "close"} =>
          call'[v] = call[v] \/ call[v].conn \in connClosed'
    BY DEF OwnCall
  <2> QED BY <2>1, <2>2, LostKept DEF AllInv
<1>4. Shared' = Shared /\ Claimed' = Claimed /\ Installed' = Installed /\ Ended' = Ended
  BY DEF Stays, Shared, Claimed, Installed, Ended
<1> QED BY <1>1, <1>2, <1>3, <1>4, MapSame DEF AllInv, Implements

\* A caller is given the connection.
LEMMA CallerHandsOut == ASSUME AllInv, NEW w \in Callers, OwnCall(w), HandsOut(w)
                        PROVE  AllInv' /\ Implements
<1>0. /\ PoolInv /\ ~closed /\ UNCHANGED <<closed, cur, dial, connClosed, cancelled>>
      /\ cur \in Gens /\ DialInv
  BY DEF AllInv, HandsOut, PoolInv, Types
<1>1. PICK c : c = st[cur].shared
  OBVIOUS
<1>2. /\ PoolInv' /\ st'[cur].shared = c /\ st'[cur].claimed = TRUE /\ c # NoConn
      /\ \A g \in Gens : /\ st'[g].all = st[g].all /\ st'[g].ended = st[g].ended
                         /\ st'[g].tear = st[g].tear
  BY <1>0, <1>1, HandOutStep DEF HandsOut
<1>3. CallTypes'
  BY DEF AllInv, CallTypes, OwnCall
<1>4. NoConnectionLost'
  <2>1. \A v \in Callers : call[v].pc \in {"drop", "close"} =>
          call'[v] = call[v] \/ call[v].conn \in connClosed'
    BY DEF OwnCall
  <2> QED BY <1>0, <1>2, <2>1, LostKept DEF AllInv
<1>5. Installed' = Installed /\ Ended' = Ended
  <2>1. Installed' = Installed
    BY <1>0 DEF Installed
  <2> QED BY <1>0, <1>2, <2>1, EndedSame
<1>6. Shared # NoConn /\ Claimed' = TRUE /\ Shared' = Shared
  BY <1>0, <1>1, <1>2 DEF Shared, Claimed
<1>7. S!HandOut
  BY <1>5, <1>6 DEF S!HandOut, Shared, Claimed, Ended
<1> QED BY <1>2, <1>3, <1>4, <1>7 DEF AllInv, Implements, S!PoolNext

\* A caller takes the connection away, and is to close it.
LEMMA CallerRemoves == ASSUME AllInv, NEW w \in Callers, OwnCall(w), Removes(w)
                       PROVE  AllInv' /\ Implements
<1>0. /\ PoolInv /\ ~closed /\ UNCHANGED <<closed, cur, dial, connClosed, handed, claims>>
      /\ cur \in Gens /\ DialInv
  BY DEF AllInv, Removes, PoolInv, Types
<1>1. PICK c : c = st[cur].shared
  OBVIOUS
<1>2. /\ PoolInv' /\ c \in Conns /\ c # NoConn
      /\ st'[cur].shared = NoConn /\ st'[cur].claimed = FALSE
      /\ st[cur].all = {c} /\ cancelled' = cancelled \union {c}
      /\ \A g \in Gens : /\ g # cur => st'[g] = st[g]
                         /\ st'[g].ended = st[g].ended /\ st'[g].tear = st[g].tear
  BY <1>0, <1>1, RemoveStep DEF Removes
<1>3. CallTypes'
  BY DEF AllInv, CallTypes, OwnCall
<1>4. NoConnectionLost'
  <2>1. \A v \in Callers : call[v].pc \in {"drop", "close"} =>
          call'[v] = call[v] \/ call[v].conn \in connClosed'
    BY DEF OwnCall
  <2>2. call'[w].conn = c /\ call'[w].pc \in {"drop", "close"}
    BY <1>1 DEF Removes
  <2> QED BY <1>0, <1>2, <2>1, <2>2, LostKept DEF AllInv
<1>5. c \in Installed /\ Installed' = Installed
  BY <1>0, <1>1, <1>2 DEF Installed, DialInv, LinkOk
<1>6. Ended' = Ended \union {c}
  <2>1. \A d \in Installed : dial[d].gen \in Gens
    BY <1>0, GenOf DEF Installed
  <2> QED BY <1>0, <1>2, <1>5, <2>1 DEF Ended
<1>7. Shared = c /\ Shared' = NoConn /\ Claimed' = FALSE
  BY <1>0, <1>1, <1>2 DEF Shared, Claimed
<1>8. S!Remove(c)
  BY <1>5, <1>6, <1>7 DEF S!Remove, Shared, Claimed, Ended
<1> QED BY <1>2, <1>3, <1>4, <1>8 DEF AllInv, Implements, S!PoolNext

\* A caller starts the dial it waits for.
LEMMA CallerStarts == ASSUME AllInv, NEW w \in Callers, OwnCall(w), StartsDial(w)
                      PROVE  AllInv' /\ Implements
<1>0. /\ PoolInv /\ UNCHANGED <<closed, cur, connClosed, cancelled, handed, claims>>
      /\ cur \in Gens /\ DialInv
  BY DEF AllInv, StartsDial, PoolInv, Types
<1>1. PICK d \in Conns :
         /\ dial[d].pc = "unused"
         /\ dial' = [dial EXCEPT ![d].pc = "dialing", ![d].gen = cur, ![d].owner = w]
         /\ st' = [st EXCEPT ![cur].connecting = d]
  BY DEF StartsDial
<1>2. /\ PoolInv' /\ Installed' = Installed
      /\ \A c \in Installed : dial'[c] = dial[c]
      /\ \A c \in Conns : dial'[c].ok = dial[c].ok
      /\ \A c \in Conns : dial[c].pc = "install" => dial'[c].pc = "install"
      /\ \A g \in Gens : /\ st'[g].all = st[g].all /\ st'[g].shared = st[g].shared
                         /\ st'[g].claimed = st[g].claimed
                         /\ st'[g].ended = st[g].ended /\ st'[g].tear = st[g].tear
  <2>1. ~closed /\ st[cur].shared = NoConn /\ st[cur].connecting = NoConn
    BY DEF StartsDial
  <2> QED BY <1>0, <1>1, <2>1, StartStep
<1>3. CallTypes'
  BY DEF AllInv, CallTypes, OwnCall
<1>4. NoConnectionLost'
  <2>1. \A v \in Callers : call[v].pc \in {"drop", "close"} =>
          call'[v] = call[v] \/ call[v].conn \in connClosed'
    BY DEF OwnCall
  <2> QED BY <1>0, <1>2, <2>1, LostKept DEF AllInv
<1>5. Ended' = Ended
  BY <1>0, <1>2, EndedSame
<1>6. Shared' = Shared /\ Claimed' = Claimed
  BY <1>0, <1>2 DEF Shared, Claimed
<1> QED BY <1>2, <1>3, <1>4, <1>5, <1>6, MapSame DEF AllInv, Implements

\* A dial returns, or is done.
LEMMA DialGoesOn == ASSUME AllInv, NEW d \in Conns, DialReturns(d) \/ DialFinish(d)
                    PROVE  AllInv' /\ Implements
<1>0. /\ PoolInv /\ UNCHANGED <<closed, cur, st, call, cancelled, handed, claims>>
      /\ cur \in Gens /\ DialInv /\ Types
  BY DEF AllInv, DialReturns, DialFinish, PoolInv, Types, connVars
<1>1. PICK e : /\ dial' = [dial EXCEPT ![d] = e] /\ DOMAIN e = DialFields
               /\ e.gen = dial[d].gen /\ e.err \in BOOLEAN
               /\ \/ dial[d].pc = "dialing" /\ e.pc = "install"
                  \/ dial[d].pc = "finish" /\ e.pc = "done" /\ e.err = dial[d].err /\ e.ok = dial[d].ok
               /\ e.pc = "install" /\ e.ok /\ e.err => d \in connClosed'
               /\ connClosed \subseteq connClosed'
  <2>1. CASE DialReturns(d)
    <3>1. PICK ok \in BOOLEAN :
            /\ dial' = [dial EXCEPT ![d].pc = "install", ![d].ok = ok,
                                    ![d].err = ~ok \/ DialEnded(d)]
            /\ connClosed' = connClosed \union IF ok /\ DialEnded(d) THEN {d} ELSE {}
      BY <2>1 DEF DialReturns
    <3> DEFINE e == [dial[d] EXCEPT !.pc = "install", !.ok = ok, !.err = ~ok \/ DialEnded(d)]
    <3>2. dial' = [dial EXCEPT ![d] = e]
      BY <3>1
    <3>3. /\ DOMAIN e = DialFields /\ e.gen = dial[d].gen /\ e.pc = "install" /\ e.ok = ok
          /\ e.err = (~ok \/ DialEnded(d))
      BY <1>0 DEF Types, DialFields
    <3>4. dial[d].pc = "dialing"
      BY <2>1 DEF DialReturns
    <3> HIDE DEF e
    <3> QED BY <3>1, <3>2, <3>3, <3>4
  <2>2. CASE DialFinish(d)
    <3> DEFINE e == [dial[d] EXCEPT !.pc = "done"]
    <3>1. dial' = [dial EXCEPT ![d] = e] /\ dial[d].pc = "finish" /\ connClosed' = connClosed
      BY <2>2 DEF DialFinish, connVars
    <3>2. /\ DOMAIN e = DialFields /\ e.gen = dial[d].gen /\ e.pc = "done" /\ e.ok = dial[d].ok
          /\ e.err = dial[d].err /\ dial[d].err \in BOOLEAN
      BY <1>0 DEF Types, DialFields, DialInv, DialOk
    <3> HIDE DEF e
    <3> QED BY <3>1, <3>2
  <2> QED BY <2>1, <2>2
<1>2. PoolInv' /\ Installed' = Installed /\ \A c \in Conns : dial'[c].gen = dial[c].gen
  BY <1>0, <1>1, GoesOnStep
<1>3. CallTypes'
  BY <1>0 DEF AllInv, CallTypes
<1>4. NoConnectionLost'
  <2>1. dial'[d] = e /\ \A c \in Conns \ {d} : dial'[c] = dial[c]
    BY <1>0, <1>1, DialChanged
  <2> QED BY <1>0, <1>1, <2>1, LostKept DEF AllInv
<1>5. Ended' = Ended
  BY <1>0, <1>2, EndedSame DEF Installed
<1>6. Shared' = Shared /\ Claimed' = Claimed
  BY <1>0 DEF Shared, Claimed
<1> QED BY <1>2, <1>3, <1>4, <1>5, <1>6, MapSame DEF AllInv, Implements

\* The locked part of connectSingle.
LEMMA DialInstalls == ASSUME AllInv, NEW d \in Conns, DialInstall(d)
                      PROVE  AllInv' /\ Implements
<1>0. /\ PoolInv /\ UNCHANGED <<closed, cur, call, cancelled, handed, claims>>
      /\ cur \in Gens /\ DialInv /\ Types /\ StateInv /\ dial[d].pc = "install"
  BY DEF AllInv, DialInstall, PoolInv, Types
<1>1. PICK g \in Gens : g = dial[d].gen
  BY <1>0, GenOf
<1>2. PICK fails \in BOOLEAN : fails = (dial[d].err \/ closed \/ g # cur)
  OBVIOUS
<1>3. connClosed' = connClosed \union IF fails /\ ~dial[d].err THEN {d} ELSE {}
  BY <1>1, <1>2 DEF DialInstall
<1>4. PoolInv' /\ InstallEffect(d, g, fails)
  <2>1. PoolInv
    BY <1>0
  <2> QED BY <1>1, <1>2, <2>1, InstallStep
<1> USE DEF InstallEffect
<1>5. CallTypes'
  BY <1>0 DEF AllInv, CallTypes
<1>6. NoConnectionLost'
  <2>1. dial[d].ok => d \in connClosed' \/ (~closed' /\ cur' \in Gens /\ d \in st'[cur'].all)
    <3>1. dial[d].ok /\ dial[d].err => d \in connClosed
      BY <1>0 DEF DialInv, DialOk
    <3>2. CASE fails
      BY <1>3, <3>1, <3>2
    <3>3. CASE ~fails
      BY <1>0, <1>2, <1>4, <3>3
    <3> QED BY <3>2, <3>3
  <2> QED BY <1>0, <1>3, <1>4, <2>1, LostKept DEF AllInv
<1>7. CASE fails
  <2>1. Ended' = Ended
    BY <1>0, <1>4, <1>7, EndedSame
  <2>2. st'[cur].shared = st[cur].shared /\ st'[cur].claimed = st[cur].claimed
    BY <1>0, <1>4, <1>7
  <2>3. Shared' = Shared /\ Claimed' = Claimed
    BY <1>0, <2>2 DEF Shared, Claimed
  <2> QED BY <1>4, <1>5, <1>6, <1>7, <2>1, <2>3, MapSame DEF AllInv, Implements
<1>8. CASE ~fails
  <2>1. g = cur /\ ~closed
    BY <1>2, <1>8
  <2>2. ~st[g].ended
    BY <1>0, <2>1 DEF StateInv, StateOk, Untouched
  <2>3. d \notin cancelled
    BY <1>0, <1>4 DEF DialInv
  <2>4. \A c \in Installed : dial[c].gen \in Gens
    BY <1>0, GenOf DEF Installed
  <2>5. Ended' = Ended
    BY <1>0, <1>1, <1>4, <1>8, <2>2, <2>3, <2>4 DEF Ended
  <2>6. Shared = NoConn /\ Shared' = d /\ Claimed' = FALSE
    BY <1>0, <1>4, <1>8, <2>1 DEF Shared, Claimed
  <2>7. S!Connect(d)
    BY <1>4, <1>8, <2>5, <2>6 DEF S!Connect, Shared, Claimed, Ended
  <2> QED BY <1>4, <1>5, <1>6, <2>7 DEF AllInv, Implements, S!PoolNext
<1> QED BY <1>7, <1>8

\* Reset and Close.
LEMMA Replaces == ASSUME AllInv, Reset \/ Close PROVE AllInv' /\ Implements
<1>0. /\ PoolInv /\ UNCHANGED <<dial, call, connClosed, cancelled, handed, claims>>
      /\ cur \in Gens /\ DialInv /\ Types /\ ~closed
  BY DEF AllInv, Reset, Close, PoolInv, Types, connVars
<1>1. \/ closed' = TRUE /\ cur' = cur
      \/ closed' = FALSE /\ cur' = cur + 1 /\ cur < MaxResets
  BY <1>0 DEF Reset, Close, Types
<1>2. /\ PoolInv'
      /\ cur' # cur => st'[cur'].shared = NoConn /\ st'[cur'].claimed = FALSE
      /\ st'[cur].tear = "due"
      /\ \A g \in Gens : /\ st'[g].all = st[g].all /\ st'[g].ended = st[g].ended
                         /\ st[g].tear = "due" => st'[g].tear = "due"
  <2>1. st' = [st EXCEPT ![cur].tear = "due"]
    BY DEF Reset, Close
  <2> QED BY <1>0, <1>1, <2>1, ReplaceStep
<1>3. CallTypes'
  BY <1>0 DEF AllInv, CallTypes
<1>4. NoConnectionLost'
  BY <1>0, <1>2, LostKept DEF AllInv
<1>5. Installed' = Installed
  BY <1>0 DEF Installed
<1>6. Ended' = Ended
  BY <1>0, <1>2, <1>5, EndedSame
<1>7. Shared' = NoConn /\ Claimed' = FALSE
  <2>1. closed' = TRUE \/ cur' # cur
    BY <1>0, <1>1, Numbers
  <2> QED BY <1>2, <2>1 DEF Shared, Claimed
<1>8. S!Replace
  BY <1>5, <1>6, <1>7 DEF S!Replace, Shared, Claimed, Ended
<1> QED BY <1>2, <1>3, <1>4, <1>8 DEF AllInv, Implements, S!PoolNext

\* closeState: the context of the one connection of the state ends.
LEMMA StateCloses == ASSUME AllInv, NEW g \in Gens, CloseState(g)
                     PROVE  AllInv' /\ Implements
<1>0. /\ PoolInv /\ UNCHANGED <<closed, cur, dial, call, cancelled, handed, claims>>
      /\ cur \in Gens /\ DialInv /\ Types /\ StateInv
      /\ connClosed' = connClosed \union st[g].all
  BY DEF AllInv, CloseState, PoolInv, Types
<1>1. /\ PoolInv' /\ ~Untouched(g) /\ st'[g].ended = TRUE
      /\ \A h \in Gens : /\ st'[h].all = st[h].all /\ (h # g => st'[h] = st[h])
                         /\ st'[h].shared = st[h].shared /\ st'[h].claimed = st[h].claimed
  BY <1>0, CloseStateStep
<1>2. CallTypes'
  BY <1>0 DEF AllInv, CallTypes
<1>3. NoConnectionLost'
  BY <1>0, <1>1, LostKept DEF AllInv
<1>4. /\ Installed' = Installed
      /\ \A c \in Installed : /\ c \in Conns /\ dial[c].gen \in Gens
                              /\ c \notin cancelled => st[dial[c].gen].shared = c
  BY <1>0, GenOf DEF Installed, DialInv, DialOk
<1>5. Shared' = Shared /\ Claimed' = Claimed
  BY <1>0, <1>1 DEF Shared, Claimed
<1>6. Ended' = Ended \union {c \in Installed : dial[c].gen = g}
  BY <1>0, <1>1, <1>4 DEF Ended
<1>7. \A c \in Installed : dial[c].gen = g => c \in Ended \/ c = st[g].shared
  BY <1>4 DEF Ended
<1>8. CASE st[g].shared = NoConn
  <2>1. Ended' = Ended
    BY <1>4, <1>6, <1>7, <1>8, Numbers
  <2> QED BY <1>1, <1>2, <1>3, <1>4, <1>5, <2>1, MapSame DEF AllInv, Implements
<1>9. CASE st[g].shared # NoConn
  <2>1. PICK c : c = st[g].shared
    OBVIOUS
  <2>2. c \in Installed /\ dial[c].gen = g /\ c \in Conns
    BY <1>0, <1>4, <1>9, <2>1 DEF DialInv, LinkOk
  <2>3. Ended' = Ended \union {c}
    BY <1>6, <1>7, <2>1, <2>2
  <2>4. c # Shared
    <3>1. CASE closed
      BY <1>9, <2>1, <3>1 DEF Shared
    <3>2. CASE ~closed
      <4>1. g # cur
        BY <1>1, <3>2 DEF Untouched
      <4> QED BY <1>0, <1>9, <2>1, <2>2, <3>2, <4>1 DEF Shared, DialInv, LinkOk
    <3> QED BY <3>1, <3>2
  <2>5. S!EndReplaced(c)
    BY <1>4, <1>5, <2>2, <2>3, <2>4 DEF S!EndReplaced, Shared, Claimed, Ended
  <2> QED BY <1>1, <1>2, <1>3, <2>2, <2>5 DEF AllInv, Implements, S!PoolNext
<1> QED BY <1>8, <1>9

-----------------------------------------------------------------------------
\* Every step keeps the invariant and is a step of SharedConn, or none.
LEMMA NextPool == ASSUME AllInv, [Next]_vars PROVE AllInv' /\ Implements
<1>1. ASSUME NEW w \in Callers,
             Acquire(w) \/ Release(w) \/ Invalidate(w) \/ CloseConn(w) \/ CancelCtx(w)
      PROVE  AllInv' /\ Implements
  <2>1. OwnCall(w) /\ (Stays \/ StartsDial(w) \/ HandsOut(w) \/ Removes(w))
    BY <1>1, AcquireMoves, UseMoves DEF AllInv
  <2> QED BY <2>1, CallerStays, CallerStarts, CallerHandsOut, CallerRemoves
<1>2. ASSUME NEW d \in Conns, ConnectSingle(d) PROVE AllInv' /\ Implements
  BY <1>2, DialGoesOn, DialInstalls DEF ConnectSingle
<1>3. ASSUME NEW g \in Gens, CloseState(g) PROVE AllInv' /\ Implements
  BY <1>3, StateCloses
<1>4. CASE Reset \/ Close
  BY <1>4, Replaces
<1>5. CASE UNCHANGED vars
  <2>1. PoolInv'
    BY <1>5, SameStep DEF vars, AllInv
  <2>2. CallTypes' /\ NoConnectionLost'
    BY <1>5 DEF vars, AllInv, CallTypes, NoConnectionLost, Dropping
  <2>3. Shared' = Shared /\ Claimed' = Claimed /\ Installed' = Installed /\ Ended' = Ended
    BY <1>5 DEF vars, Shared, Claimed, Installed, Ended
  <2> QED BY <2>1, <2>2, <2>3, MapSame DEF AllInv, Implements
<1> QED BY <1>1, <1>2, <1>3, <1>4, <1>5 DEF Next

\* The invariant holds throughout.
LEMMA PoolInvariant == Spec => []AllInv
<1>1. Init => AllInv
  BY InitPool DEF AllInv
<1>2. AllInv /\ [Next]_vars => AllInv'
  BY NextPool
<1> QED BY <1>1, <1>2, PTL DEF Spec

\* One caller is told that a connection is new, whoever dialled it and however
\* often Reset, Close, Release and Invalidate come in between.
THEOREM OneCallerStartsReading == Spec => []ClaimedOnce
<1>1. AllInv => ClaimedOnce
  BY DEF AllInv, PoolInv
<1> QED BY <1>1, PoolInvariant, PTL

\* A state never dials twice at a time, nor while it has a connection.
THEOREM DialsAreShared == Spec => []SingleFlight
<1>1. AllInv => SingleFlight
  <2> SUFFICES ASSUME AllInv, NEW g \in Gens
               PROVE  /\ {d \in Conns : dial[d].gen = g /\ dial[d].pc \in {"dialing", "install"}}
                           = {st[g].connecting} \ {NoConn}
                      /\ st[g].all = {st[g].shared} \ {NoConn}
                      /\ st[g].connecting # NoConn => st[g].shared = NoConn
    BY DEF SingleFlight
  <2>1. StateOk(g) /\ LinkOk(g) /\ \A d \in Conns : DialOk(d)
    BY DEF AllInv, PoolInv, StateInv, DialInv
  <2>2. \A d \in Conns : dial[d].gen = g /\ Connecting(d) <=> d = st[g].connecting
    BY <2>1, Numbers DEF LinkOk, DialOk
  <2>3. st[g].connecting \in Conns \union {NoConn} /\ NoConn \notin Conns
    BY <2>1, Numbers DEF StateOk
  <2>4. {d \in Conns : dial[d].gen = g /\ Connecting(d)} = {st[g].connecting} \ {NoConn}
    BY <2>2, <2>3
  <2> QED BY <2>1, <2>4 DEF StateOk, Connecting
<1> QED BY <1>1, PoolInvariant, PTL

\* A connection that was dialled is in the pool, about to be closed, or closed.
THEOREM PoolLosesNoConnection == Spec => []NoConnectionLost
<1>1. AllInv => NoConnectionLost
  BY DEF AllInv
<1> QED BY <1>1, PoolInvariant, PTL

\* The pool, with its states, dials and locks, does what SharedConn lets a pool
\* do: what QueryMultiplexer relies on holds of the pool it is given.
THEOREM PoolImplementsSharedConn == Spec => S!PoolSpec
<1>1. Init => S!PoolInit
  <2> SUFFICES ASSUME Init PROVE S!PoolInit
    OBVIOUS
  <2>1. closed = FALSE /\ cur = 0 /\ cur \in Gens /\ Installed = {}
    BY Numbers DEF Init, Installed
  <2>2. st[cur].shared = NoConn /\ st[cur].claimed = FALSE
    BY <2>1 DEF Init, NewState
  <2> QED BY <2>1, <2>2 DEF S!PoolInit
<1>2. AllInv /\ [Next]_vars => [S!PoolNext]_(S!poolVars)
  BY NextPool DEF Implements
<1> QED BY <1>1, <1>2, PoolInvariant, PTL DEF Spec, S!PoolSpec
=============================================================================
