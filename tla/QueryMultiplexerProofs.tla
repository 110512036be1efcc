----------------------- MODULE QueryMultiplexerProofs -----------------------
(***************************************************************************)
(* QueryMultiplexer for any number of queries, connections and ids: one    *)
(* hand for each query, no answer to another query, and a reader for every *)
(* query that waits.                                                       *)
(***************************************************************************)
EXTENDS QueryMultiplexer, FiniteSetTheorems, TLAPS

ExFields == {"pc", "conn", "created", "id", "first", "took"}

IsExchange(e) == DOMAIN e = ExFields /\ (e.took => e.pc = "invalidate")

EntryFields == {"st", "x", "conn", "silent", "retry"}

IsEntry(e) ==
    DOMAIN e = EntryFields /\ e.st \in {"pending", "taken"} /\ e.x \in Exchanges

Types ==
    /\ shared \in used \union {NoConn} /\ used \subseteq Conns
    /\ DOMAIN ex = Exchanges /\ \A x \in Exchanges : IsExchange(ex[x])
    /\ DOMAIN reg = Ids /\ \A i \in Ids : reg[i] = Free \/ IsEntry(reg[i])
    /\ queryId \in 0..MaxIds
    /\ DOMAIN reader = Conns /\ \A c \in Conns : DOMAIN reader[c] = {"pc", "msg"}
    /\ DOMAIN sent = Conns
    /\ calls \in [Queries -> Nat]

\* The id is one that was given out, and if its query still waits it is q's.
OwnId(i, q) == i \in 1..queryId /\ (reg[i] # Free => Query(reg[i].x) = q)

\* Ids are not given out again: whoever remembers one knows whose it is.
IdInv ==
    /\ \A i \in Ids : reg[i] # Free => i <= queryId
    /\ \A x \in Exchanges : ex[x].pc \in {"write", "written"} => OwnId(ex[x].id, Query(x))
    /\ \A c \in Conns : \A m \in sent[c] : OwnId(m.id, m.q)
    /\ \A c \in Conns : reader[c].pc = "complete" => OwnId(reader[c].msg.id, reader[c].msg.q)

\* The connection was handed out: if it is still shared it has a reader.
Handed(c) == c \in used /\ (c = shared => claimed)

ReadInv ==
    /\ shared \in Conns /\ claimed => reader[shared].pc \in {"read", "complete"}
    /\ \A x \in Exchanges : ex[x].pc \in {"register", "write", "written"} => Handed(ex[x].conn)
    /\ \A i \in Ids : reg[i] # Free => Handed(reg[i].conn)

\* The exchange has to see to its query.
Holds(x) == ex[x].pc \in {"acquire", "single", "register"} \/ ex[x].took

\* OneHand without counting.
HandInv ==
    /\ \A x, y \in Exchanges : Holds(x) /\ Holds(y) /\ Query(x) = Query(y) => x = y
    /\ \A i, j \in Ids :
         reg[i] # Free /\ reg[j] # Free /\ Query(reg[i].x) = Query(reg[j].x) => i = j
    /\ \A x \in Exchanges, i \in Ids :
         Holds(x) /\ reg[i] # Free => Query(x) # Query(reg[i].x)
    /\ \A q \in Queries : \/ calls[q] = 0 /\ \/ \E x \in Exchanges : Holds(x) /\ Query(x) = q
                                             \/ \E i \in Ids : reg[i] # Free /\ Query(reg[i].x) = q
                          \/ /\ calls[q] = 1
                             /\ \A x \in Exchanges : Holds(x) => Query(x) # q
                             /\ \A i \in Ids : reg[i] # Free => Query(reg[i].x) # q

MuxInv == Types /\ IdInv /\ ReadInv /\ HandInv

-----------------------------------------------------------------------------
\* What Query is, and that an exchange has one.
LEMMA QueryOf ==
    /\ \A x \in Exchanges : Query(x) \in Queries
    /\ \A q \in Queries : <<q, 2>> \in Exchanges /\ Query(<<q, 2>>) = q
  BY DEF Exchanges, Query

\* The states an exchange starts from and ends in.
LEMMA IdleFormed ==
    /\ IsExchange(Idle) /\ Idle.pc = "done" /\ ~Idle.took
    /\ \A p \in {"acquire", "single"} :
         /\ IsExchange([Idle EXCEPT !.pc = p]) /\ [Idle EXCEPT !.pc = p].pc = p
         /\ ~[Idle EXCEPT !.pc = p].took
  BY DEF Idle, IsExchange, ExFields

\* A multiplexer without queries under way satisfies the invariant.
LEMMA InitMux == Init => MuxInv
<1> SUFFICES ASSUME Init PROVE MuxInv
  OBVIOUS
<1> USE MuxAssumption
<1>1. PICK way \in [Queries -> {"acquire", "single"}] :
        ex = [x \in Exchanges |-> [Idle EXCEPT !.pc = IF x[2] = 1 THEN way[x[1]] ELSE "unused"]]
  BY DEF Init
<1>2. \A x \in Exchanges : /\ DOMAIN ex[x] = ExFields /\ ~ex[x].took
                           /\ ex[x].pc = IF x[2] = 1 THEN way[x[1]] ELSE "unused"
  BY <1>1 DEF Idle, ExFields
<1>3. \A x \in Exchanges : Holds(x) <=> x[2] = 1
  BY <1>2 DEF Holds, Exchanges
<1>4. Types
  <2>1. DOMAIN ex = Exchanges /\ \A x \in Exchanges : IsExchange(ex[x])
    BY <1>1, <1>2 DEF IsExchange
  <2>2. DOMAIN reg = Ids /\ \A i \in Ids : reg[i] = Free
    BY DEF Init
  <2>3. DOMAIN reader = Conns /\ \A c \in Conns : DOMAIN reader[c] = {"pc", "msg"}
    BY DEF Init
  <2>4. /\ shared \in used \union {NoConn} /\ used \subseteq Conns
        /\ queryId \in 0..MaxIds /\ DOMAIN sent = Conns
    BY DEF Init, PoolInit
  <2>5. calls \in [Queries -> Nat]
    BY DEF Init
  <2> QED BY <2>1, <2>2, <2>3, <2>4, <2>5 DEF Types
<1>5. IdInv /\ ReadInv
  BY <1>2 DEF Init, IdInv, ReadInv, PoolInit, Exchanges
<1>6. HandInv
  <2>1. \A i \in Ids : reg[i] = Free
    BY DEF Init
  <2>2. \A q \in Queries : calls[q] = 0 /\ <<q, 1>> \in Exchanges /\ <<q, 1>>[2] = 1 /\ Query(<<q, 1>>) = q
    BY DEF Init, Exchanges, Query
  <2>3. \A x, y \in Exchanges : x[2] = 1 /\ y[2] = 1 /\ Query(x) = Query(y) => x = y
    BY DEF Exchanges, Query
  <2> QED BY <1>3, <2>1, <2>2, <2>3 DEF HandInv
<1> QED BY <1>4, <1>5, <1>6 DEF MuxInv

-----------------------------------------------------------------------------
(* Who has the query in hand *)

\* Nobody takes a query or gives it away.
LEMMA HandSame ==
    ASSUME HandInv, \A x \in Exchanges : Holds(x)' <=> Holds(x),
           \A i \in Ids : reg'[i] # Free => reg[i] # Free /\ reg'[i].x = reg[i].x,
           \A i \in Ids : reg[i] # Free => reg'[i] # Free,
           UNCHANGED calls
    PROVE  HandInv'
  BY DEF HandInv

\* An exchange calls back.
LEMMA HandBack ==
    ASSUME HandInv, calls \in [Queries -> Nat], NEW x \in Exchanges, Holds(x), ~Holds(x)',
           \A y \in Exchanges \ {x} : Holds(y)' <=> Holds(y),
           UNCHANGED reg, Callback(Query(x))
    PROVE  HandInv'
<1>1. /\ calls'[Query(x)] = calls[Query(x)] + 1
      /\ \A q \in Queries \ {Query(x)} : calls'[q] = calls[q]
  BY QueryOf DEF Callback
<1>2. calls[Query(x)] = 0
  BY QueryOf DEF HandInv
<1> QED BY <1>1, <1>2 DEF HandInv

\* An exchange enters its query into m.queries.
LEMMA HandEntry ==
    ASSUME HandInv, NEW x \in Exchanges, Holds(x), ~Holds(x)',
           \A y \in Exchanges \ {x} : Holds(y)' <=> Holds(y),
           NEW i \in Ids, reg[i] = Free, reg'[i] # Free, reg'[i].x = x,
           \A j \in Ids \ {i} : reg'[j] = reg[j], UNCHANGED calls
    PROVE  HandInv'
  BY DEF HandInv

\* An exchange takes a query from m.queries.
LEMMA HandTaken ==
    ASSUME HandInv, NEW x \in Exchanges, ~Holds(x), Holds(x)',
           \A y \in Exchanges \ {x} : Holds(y)' <=> Holds(y),
           NEW i \in Ids, reg[i] # Free, reg'[i] = Free, Query(reg[i].x) = Query(x),
           \A j \in Ids \ {i} : reg'[j] = reg[j], UNCHANGED calls
    PROVE  HandInv'
  BY DEF HandInv

\* Who takes a query from m.queries calls back.
LEMMA HandBackEntry ==
    ASSUME HandInv, calls \in [Queries -> Nat], \A x \in Exchanges : Holds(x)' <=> Holds(x),
           NEW i \in Ids, reg[i] # Free, reg[i].x \in Exchanges, reg'[i] = Free,
           \A j \in Ids \ {i} : reg'[j] = reg[j], Callback(Query(reg[i].x))
    PROVE  HandInv'
<1> DEFINE q0 == Query(reg[i].x)
<1>0. q0 \in Queries
  BY QueryOf
<1>1. calls'[q0] = calls[q0] + 1 /\ \A q \in Queries \ {q0} : calls'[q] = calls[q]
  BY <1>0 DEF Callback
<1>2. calls[q0] = 0
  BY <1>0 DEF HandInv
<1>3. /\ \A x \in Exchanges : Holds(x)' => Query(x) # q0
      /\ \A j \in Ids : reg'[j] # Free => reg[j] # Free /\ reg'[j] = reg[j] /\ Query(reg'[j].x) # q0
  BY DEF HandInv
<1> HIDE DEF q0
<1> QED BY <1>0, <1>1, <1>2, <1>3 DEF HandInv

-----------------------------------------------------------------------------
(* Ids and connections *)

\* An id that was given out stays with its query.
LEMMA OwnIdKept ==
    ASSUME queryId \in Nat, queryId' \in Nat, queryId <= queryId',
           \A i \in 1..queryId :
             reg'[i] # Free => reg[i] # Free /\ reg'[i].x = reg[i].x,
           NEW i, NEW q, OwnId(i, q)
    PROVE  OwnId(i, q)'
  BY DEF OwnId

\* A connection that was handed out does not become new again.
LEMMA HandedKept ==
    ASSUME Types, NEW c, Handed(c),
           \/ UNCHANGED <<shared, claimed, used>>
           \/ shared' = NoConn /\ used' = used
           \/ claimed' = TRUE /\ UNCHANGED <<shared, used>>
           \/ \E d \in Conns \ used : shared' = d /\ used' = used \union {d}
    PROVE  Handed(c)'
  BY MuxAssumption DEF Handed, Types

\* Invalidate removes the connection or leaves the pool as it is.
LEMMA InvalidateMoves ==
    ASSUME Types, NEW c, InvalidateConn(c)
    PROVE  /\ \/ UNCHANGED <<shared, claimed, used>>
              \/ shared' = NoConn /\ used' = used
           /\ shared' \in used' \union {NoConn} /\ used' \subseteq Conns
           /\ shared' # NoConn => UNCHANGED <<shared, claimed>>
           /\ c # NoConn => shared' # c
  BY DEF InvalidateConn, Remove, poolVars, Types

\* The types hold after a step that changes one exchange and calls back at most.
LEMMA ExchangeTypes ==
    ASSUME Types, NEW x \in Exchanges, NEW e, IsExchange(e), ex' = [ex EXCEPT ![x] = e],
           Callback(Query(x)) \/ UNCHANGED calls,
           UNCHANGED <<reg, queryId, reader, sent>>,
           shared' \in used' \union {NoConn} /\ used' \subseteq Conns
    PROVE  Types'
<1>1. calls' \in [Queries -> Nat]
  BY QueryOf DEF Types, Callback
<1>2. DOMAIN ex' = Exchanges /\ \A y \in Exchanges : IsExchange(ex'[y])
  BY DEF Types
<1> QED BY <1>1, <1>2 DEF Types

\* So do the ids and the readers, unless the exchange is about to write.
LEMMA ExchangeIds ==
    ASSUME Types, IdInv, NEW x \in Exchanges, NEW e, ex' = [ex EXCEPT ![x] = e],
           e.pc \notin {"write", "written"},
           UNCHANGED <<reg, queryId, reader, sent>>
    PROVE  IdInv'
<1>1. \A y \in Exchanges : ex'[y].pc \in {"write", "written"} => y # x /\ ex'[y] = ex[y]
  BY DEF Types
<1> QED BY <1>1 DEF IdInv, OwnId

Connected == {"register", "write", "written"}

\* No step makes a connection new to somebody who has it, as long as nobody is
\* given one and no reader stops.
LEMMA ReadKept ==
    ASSUME Types, ReadInv,
           UNCHANGED <<shared, claimed, used>> \/ (shared' = NoConn /\ used' = used),
           \A c \in Conns : c = shared' /\ reader[c].pc \in {"read", "complete"}
                             => reader'[c].pc \in {"read", "complete"},
           \A x \in Exchanges : ex'[x].pc \in Connected
                                => ex[x].pc \in Connected /\ ex'[x].conn = ex[x].conn,
           \A i \in Ids : reg'[i] # Free => reg[i] # Free /\ reg'[i].conn = reg[i].conn
    PROVE  ReadInv'
<1>1. \A c : Handed(c) => Handed(c)'
  BY HandedKept
<1>2. shared' \in Conns /\ claimed' => reader'[shared'].pc \in {"read", "complete"}
  BY MuxAssumption DEF ReadInv
<1> QED BY <1>1, <1>2 DEF ReadInv, Connected

\* An exchange that has the query in hand ends and calls back.
LEMMA FinishStep ==
    ASSUME MuxInv, NEW x \in Exchanges, Holds(x), Finish(x), Callback(Query(x)),
           UNCHANGED <<reg, queryId, reader, sent>>,
           UNCHANGED <<shared, claimed, used>> \/ (shared' = NoConn /\ used' = used)
    PROVE  MuxInv'
<1>0. Types /\ IdInv /\ ReadInv /\ HandInv
  BY DEF MuxInv
<1>1. /\ ex' = [ex EXCEPT ![x] = Idle] /\ ex'[x] = Idle
      /\ \A y \in Exchanges \ {x} : ex'[y] = ex[y]
  BY <1>0 DEF Finish, Types
<1>2. Types'
  BY <1>0, <1>1, IdleFormed, ExchangeTypes DEF Types
<1>3. IdInv'
  BY <1>0, <1>1, IdleFormed, ExchangeIds
<1>4. ReadInv'
  BY <1>0, <1>1, IdleFormed, ReadKept DEF Connected
<1>5. HandInv'
  <2>1. ~Holds(x)' /\ \A y \in Exchanges \ {x} : Holds(y)' <=> Holds(y)
    BY <1>1, IdleFormed DEF Holds
  <2> QED BY <1>0, <2>1, HandBack DEF Types
<1> QED BY <1>2, <1>3, <1>4, <1>5 DEF MuxInv

\* The steps of an exchange.
LEMMA AcquireStep == ASSUME MuxInv, NEW x \in Exchanges, Acquire(x) PROVE MuxInv'
<1>0. Types /\ IdInv /\ ReadInv /\ HandInv
  BY DEF MuxInv
<1> DEFINE e == [ex[x] EXCEPT !.pc = "register", !.conn = shared, !.created = ~claimed]
<1>1. /\ ex' = [ex EXCEPT ![x] = e] /\ ex'[x] = e
      /\ \A y \in Exchanges \ {x} : ex'[y] = ex[y]
  BY <1>0 DEF Acquire, Types
<1>2. /\ IsExchange(e) /\ e.pc = "register" /\ e.conn = shared /\ e.took = ex[x].took
      /\ Holds(x) /\ ~ex[x].took
  BY <1>0 DEF Acquire, At, Types, IsExchange, ExFields, Holds
<1> HIDE DEF e
<1>3. /\ shared \in Conns /\ claimed' = TRUE /\ UNCHANGED <<shared, used>>
      /\ UNCHANGED <<reg, queryId, sent, calls>>
  BY <1>0, MuxAssumption DEF Acquire, HandOut, Types
<1>4. /\ DOMAIN reader' = Conns
      /\ \A c \in Conns : DOMAIN reader'[c] = {"pc", "msg"} /\ reader'[c].msg = reader[c].msg
      /\ \A c \in Conns : reader'[c].pc = reader[c].pc \/ (c = shared /\ ~claimed /\ reader'[c].pc = "read")
      /\ ~claimed => reader'[shared].pc = "read"
  BY <1>0, <1>3 DEF Acquire, Types
<1>5. Types'
  BY <1>0, <1>1, <1>2, <1>3, <1>4 DEF Types
<1>6. IdInv'
  BY <1>0, <1>1, <1>2, <1>3, <1>4 DEF IdInv, OwnId
<1>7. ReadInv'
  <2>1. \A c : Handed(c) => Handed(c)'
    BY <1>0, <1>3, HandedKept
  <2>2. reader'[shared].pc \in {"read", "complete"}
    BY <1>0, <1>3, <1>4 DEF ReadInv
  <2>3. Handed(shared)'
    BY <1>0, <1>3, MuxAssumption DEF Handed, Types
  <2> QED BY <1>0, <1>1, <1>2, <1>3, <2>1, <2>2, <2>3 DEF ReadInv
<1>8. HandInv'
  <2>1. \A y \in Exchanges : Holds(y)' <=> Holds(y)
    BY <1>1, <1>2 DEF Holds
  <2> QED BY <1>0, <1>3, <2>1, HandSame
<1> QED BY <1>5, <1>6, <1>7, <1>8 DEF MuxInv

\* register gives an exchange an id that nobody has had.
LEMMA RegisterStep == ASSUME MuxInv, NEW x \in Exchanges, Register(x) PROVE MuxInv'
<1>0. Types /\ IdInv /\ ReadInv /\ HandInv
  BY DEF MuxInv
<1> DEFINE e == [ex[x] EXCEPT !.pc = "write", !.id = queryId']
<1>i. PICK i \in Ids : i = queryId + 1
  BY <1>0, MuxAssumption DEF Register, Types, Ids
<1>1. /\ ex' = [ex EXCEPT ![x] = e] /\ ex'[x] = e
      /\ \A y \in Exchanges \ {x} : ex'[y] = ex[y]
  BY <1>0 DEF Register, Types
<1>2. /\ IsExchange(e) /\ e.pc = "write" /\ e.conn = ex[x].conn /\ e.took = ex[x].took
      /\ Holds(x) /\ ~ex[x].took /\ e.id = queryId' /\ ex[x].pc = "register"
  BY <1>0 DEF Register, At, Types, IsExchange, ExFields, Holds
<1> HIDE DEF e
<1>3. /\ queryId' = i /\ i \in Ids /\ queryId \in Nat
      /\ UNCHANGED <<shared, claimed, used, reader, sent, calls>>
      /\ reg' = [reg EXCEPT ![i] = NewEntry(x)]
  BY <1>0, <1>i, MuxAssumption DEF Register, Types, Ids, poolVars
<1>4. reg[i] = Free
  BY <1>0, <1>i, <1>3 DEF IdInv, Ids
<1>5. /\ IsEntry(NewEntry(x)) /\ NewEntry(x) # Free /\ NewEntry(x).x = x
      /\ NewEntry(x).conn = ex[x].conn
  BY DEF NewEntry, IsEntry, EntryFields, Free
<1>6. DOMAIN reg' = Ids /\ reg'[i] = NewEntry(x) /\ \A j \in Ids \ {i} : reg'[j] = reg[j]
  BY <1>0, <1>3 DEF Types
<1>7. Types'
  BY <1>0, <1>1, <1>2, <1>3, <1>5, <1>6 DEF Types, Ids
<1>8. IdInv'
  <2>1. i = queryId + 1 /\ queryId \in 0..MaxIds /\ i \in 1..MaxIds /\ Ids = 1..MaxIds
    BY <1>0, <1>i, <1>3, MuxAssumption DEF Types, Ids
  <2>2. \A j, q : OwnId(j, q) => OwnId(j, q)'
    BY <1>3, <1>6, <2>1, OwnIdKept
  <2>3. \A j \in Ids : reg'[j] # Free => j <= queryId'
    BY <1>0, <1>3, <1>6, <2>1 DEF IdInv
  <2>4. OwnId(i, Query(x))'
    BY <1>3, <1>5, <1>6, <2>1 DEF OwnId
  <2> QED BY <1>0, <1>1, <1>2, <1>3, <2>2, <2>3, <2>4 DEF IdInv
<1>9. ReadInv'
  <2>1. Handed(ex[x].conn) /\ \A c : Handed(c)' <=> Handed(c)
    BY <1>0, <1>2, <1>3 DEF ReadInv, Handed
  <2> QED BY <1>0, <1>1, <1>2, <1>3, <1>5, <1>6, <2>1 DEF ReadInv
<1>10. HandInv'
  <2>1. ~Holds(x)' /\ \A y \in Exchanges \ {x} : Holds(y)' <=> Holds(y)
    BY <1>1, <1>2 DEF Holds
  <2> QED BY <1>0, <1>2, <1>3, <1>4, <1>5, <1>6, <2>1, HandEntry
<1> QED BY <1>7, <1>8, <1>9, <1>10 DEF MuxInv

\* The server gets the query of an exchange, with its id.
LEMMA WriteOutStep == ASSUME MuxInv, NEW x \in Exchanges, WriteOut(x) PROVE MuxInv'
<1>0. Types /\ IdInv /\ ReadInv /\ HandInv
  BY DEF MuxInv
<1>1. PICK e \in {Idle, [ex[x] EXCEPT !.pc = "written"]} : ex' = [ex EXCEPT ![x] = e]
  BY <1>0 DEF WriteOut, Finish, Types
<1>2. ex'[x] = e /\ \A y \in Exchanges \ {x} : ex'[y] = ex[y]
  BY <1>0, <1>1 DEF Types
<1>3. /\ IsExchange(e) /\ ~e.took /\ e.pc \in {"done", "written"}
      /\ e.pc = "written" => e.conn = ex[x].conn /\ e.id = ex[x].id
      /\ ~Holds(x) /\ ex[x].pc = "write"
  BY <1>0, IdleFormed DEF WriteOut, At, Types, IsExchange, ExFields, Holds
<1>4. /\ UNCHANGED <<shared, claimed, used, reg, queryId, reader, calls>>
      /\ ex[x].conn \in Conns
      /\ DOMAIN sent' = Conns
      /\ \A c \in Conns : \A m \in sent'[c] :
            m \in sent[c] \/ (m.id = ex[x].id /\ m.q = Query(x))
  <2>1. UNCHANGED <<shared, claimed, used, reg, queryId, reader, calls>>
    BY DEF WriteOut, poolVars
  <2>2. Handed(ex[x].conn)
    BY <1>0, <1>3 DEF ReadInv
  <2>3. ex[x].conn \in Conns
    BY <1>0, <2>2 DEF Handed, Types
  <2>4. DOMAIN sent' = Conns /\ \A c \in Conns : \A m \in sent'[c] :
            m \in sent[c] \/ m = [id |-> ex[x].id, q |-> Query(x)]
    BY <1>0, <2>3 DEF WriteOut, Types
  <2> QED BY <2>1, <2>3, <2>4
<1>5. Types'
  BY <1>0, <1>1, <1>2, <1>3, <1>4 DEF Types
<1>6. IdInv'
  <2>1. OwnId(ex[x].id, Query(x)) /\ \A i, q : OwnId(i, q)' <=> OwnId(i, q)
    BY <1>0, <1>3, <1>4 DEF IdInv, OwnId
  <2> QED BY <1>0, <1>2, <1>3, <1>4, <2>1 DEF IdInv
<1>7. ReadInv'
  BY <1>0, <1>2, <1>3, <1>4, ReadKept DEF Connected
<1>8. HandInv'
  <2>1. \A y \in Exchanges : Holds(y)' <=> Holds(y)
    BY <1>2, <1>3 DEF Holds
  <2> QED BY <1>0, <1>4, <2>1, HandSame
<1> QED BY <1>5, <1>6, <1>7, <1>8 DEF MuxInv

\* An exchange whose write failed takes its query, if nobody else has.
LEMMA WriteFailsStep == ASSUME MuxInv, NEW x \in Exchanges, WriteFails(x) PROVE MuxInv'
<1>0. Types /\ IdInv /\ ReadInv /\ HandInv
  BY DEF MuxInv
<1> DEFINE i == ex[x].id
           e == [ex[x] EXCEPT !.pc = "invalidate", !.took = Pending(i)]
<1>1. /\ ex' = [ex EXCEPT ![x] = e] /\ ex'[x] = e
      /\ \A y \in Exchanges \ {x} : ex'[y] = ex[y]
  BY <1>0 DEF WriteFails, Types
<1>2. /\ IsExchange(e) /\ e.pc = "invalidate" /\ e.took = Pending(i)
      /\ ~Holds(x) /\ ex[x].pc \in {"write", "written"}
  BY <1>0 DEF WriteFails, At, Types, IsExchange, ExFields, Holds
<1>3. i \in Ids /\ i \in 1..queryId /\ (reg[i] # Free => Query(reg[i].x) = Query(x))
  BY <1>0, <1>2, MuxAssumption DEF IdInv, OwnId, Types, Ids
<1> HIDE DEF e, i
<1>4. UNCHANGED <<shared, claimed, used, queryId, reader, sent, calls>>
  BY DEF WriteFails, poolVars
<1>5. /\ DOMAIN reg' = Ids /\ \A j \in Ids \ {i} : reg'[j] = reg[j]
      /\ Pending(i) => reg'[i] = Free
      /\ ~Pending(i) => reg' = reg
  BY <1>0, <1>3 DEF WriteFails, Take, Types, i
<1>6. Pending(i) => reg[i] # Free
  BY DEF Pending, Free
<1>7. Types'
  BY <1>0, <1>1, <1>2, <1>4, <1>5, <1>6 DEF Types
<1>8. IdInv'
  <2>1. \A j, q : OwnId(j, q) => OwnId(j, q)'
    BY <1>0, <1>4, <1>5, OwnIdKept, MuxAssumption DEF Types, Ids
  <2> QED BY <1>0, <1>1, <1>2, <1>4, <1>5, <2>1 DEF IdInv
<1>9. ReadInv'
  BY <1>0, <1>1, <1>2, <1>4, <1>5, ReadKept DEF Connected
<1>10. HandInv'
  <2>1. \A y \in Exchanges \ {x} : Holds(y)' <=> Holds(y)
    BY <1>1 DEF Holds
  <2>2. Holds(x)' <=> Pending(i)
    BY <1>1, <1>2 DEF Holds
  <2>3. CASE Pending(i)
    BY <1>0, <1>2, <1>3, <1>4, <1>5, <1>6, <2>1, <2>2, <2>3, HandTaken
  <2>4. CASE ~Pending(i)
    BY <1>0, <1>2, <1>4, <1>5, <2>1, <2>2, <2>4, HandSame
  <2> QED BY <2>3, <2>4
<1> QED BY <1>7, <1>8, <1>9, <1>10 DEF MuxInv

\* A write has failed: the exchange ends, calls back or begins anew.
LEMMA WriteFailedStep == ASSUME MuxInv, NEW x \in Exchanges, WriteFailed(x) PROVE MuxInv'
<1>0. Types /\ IdInv /\ ReadInv /\ HandInv
  BY DEF MuxInv
<1>1. /\ \/ UNCHANGED <<shared, claimed, used>>
         \/ shared' = NoConn /\ used' = used
      /\ shared' \in used' \union {NoConn} /\ used' \subseteq Conns
  BY <1>0, InvalidateMoves DEF WriteFailed
<1>2. UNCHANGED <<reg, queryId, reader, sent>> /\ ex[x].pc = "invalidate"
  BY DEF WriteFailed, At
<1>3. CASE ex[x].took /\ Finish(x) /\ Callback(Query(x))
  BY <1>1, <1>2, <1>3, FinishStep DEF Holds
<1>4. CASE \E e \in {Idle, [Idle EXCEPT !.pc = "acquire", !.first = FALSE]} :
             /\ ex' = [ex EXCEPT ![x] = e] /\ UNCHANGED calls
             /\ e.pc = "acquire" <=> ex[x].took
  <2>1. PICK e \in {Idle, [Idle EXCEPT !.pc = "acquire", !.first = FALSE]} :
             /\ ex' = [ex EXCEPT ![x] = e] /\ UNCHANGED calls
             /\ e.pc = "acquire" <=> ex[x].took
    BY <1>4
  <2>2. IsExchange(e) /\ e.pc \in {"done", "acquire"} /\ ~e.took
    <3> DEFINE f == [Idle EXCEPT !.pc = "acquire", !.first = FALSE]
    <3>1. DOMAIN f = ExFields /\ f.pc = "acquire" /\ ~f.took
      BY DEF Idle, ExFields
    <3> QED BY <2>1, <3>1, IdleFormed DEF IsExchange
  <2>3. ex'[x] = e /\ \A y \in Exchanges \ {x} : ex'[y] = ex[y]
    BY <1>0, <2>1 DEF Types
  <2>4. Types'
    BY <1>0, <1>1, <1>2, <2>1, <2>2, ExchangeTypes
  <2>5. IdInv'
    BY <1>0, <1>2, <2>1, <2>2, ExchangeIds
  <2>6. ReadInv'
    BY <1>0, <1>1, <1>2, <2>2, <2>3, ReadKept DEF Connected
  <2>7. HandInv'
    <3>1. \A y \in Exchanges : Holds(y)' <=> Holds(y)
      BY <1>2, <2>1, <2>2, <2>3 DEF Holds
    <3> QED BY <1>0, <1>2, <2>1, <3>1, HandSame
  <2> QED BY <2>4, <2>5, <2>6, <2>7 DEF MuxInv
<1>5. \/ ex[x].took /\ Finish(x) /\ Callback(Query(x))
      \/ ~ex[x].took /\ Finish(x) /\ UNCHANGED calls
      \/ /\ ex[x].took /\ UNCHANGED calls
         /\ ex' = [ex EXCEPT ![x] = [Idle EXCEPT !.pc = "acquire", !.first = FALSE]]
  BY DEF WriteFailed
<1>6. Idle.pc = "done" /\ [Idle EXCEPT !.pc = "acquire", !.first = FALSE].pc = "acquire"
  BY DEF Idle
<1> QED BY <1>3, <1>4, <1>5, <1>6 DEF Finish

-----------------------------------------------------------------------------
(* The AfterFuncs and recvLoop *)

\* An entry of m.queries is deleted: what is left of the rest of the invariant to
\* see is the exchange that may take the query.
LEMMA EntryLeaves ==
    ASSUME Types, IdInv, ReadInv, NEW i \in Ids, Take(i),
           UNCHANGED <<queryId, sent>>,
           \A c \in Conns : reader'[c].pc = "complete" => reader'[c] = reader[c],
           \A c \in Conns : reader[c].pc \in {"read", "complete"}
                               => reader'[c].pc \in {"read", "complete"},
           UNCHANGED <<shared, claimed, used>> \/ (shared' = NoConn /\ used' = used),
           \A x \in Exchanges : ex'[x].pc \in Connected => ex'[x] = ex[x]
    PROVE  /\ IdInv' /\ ReadInv' /\ reg'[i] = Free /\ DOMAIN reg' = Ids
           /\ \A j \in Ids \ {i} : reg'[j] = reg[j]
<1>1. reg'[i] = Free /\ DOMAIN reg' = Ids /\ \A j \in Ids \ {i} : reg'[j] = reg[j]
  BY DEF Take, Types
<1>2. \A j, q : OwnId(j, q) => OwnId(j, q)'
  BY <1>1, OwnIdKept, MuxAssumption DEF Types, Ids
<1>3. IdInv'
  BY <1>1, <1>2 DEF IdInv, Connected
<1>4. ReadInv'
  BY <1>1, ReadKept
<1> QED BY <1>1, <1>3, <1>4

\* The connection of a query has ended.
LEMMA ConnDoneStep == ASSUME MuxInv, NEW i \in Ids, ConnDone(i) PROVE MuxInv'
<1>0. Types /\ IdInv /\ ReadInv /\ HandInv
  BY DEF MuxInv
<1>1. /\ reg[i] # Free /\ IsEntry(reg[i]) /\ reg[i].x \in Exchanges /\ Take(i)
      /\ UNCHANGED <<shared, claimed, used, queryId, reader, sent>>
  BY <1>0 DEF ConnDone, Pending, Types, IsEntry, Free, poolVars
<1>2. PICK x \in Exchanges : x = <<Query(reg[i].x), 2>> /\ Query(x) = Query(reg[i].x)
  BY <1>1, QueryOf
<1>3. CASE Callback(Query(reg[i].x)) /\ UNCHANGED ex
  <2>1. /\ IdInv' /\ ReadInv' /\ reg'[i] = Free /\ DOMAIN reg' = Ids
        /\ \A j \in Ids \ {i} : reg'[j] = reg[j]
    BY <1>0, <1>1, <1>3, EntryLeaves
  <2>2. calls' \in [Queries -> Nat]
    BY <1>0, <1>1, <1>3, QueryOf DEF Types, Callback
  <2>3. Types'
    BY <1>0, <1>1, <1>3, <2>1, <2>2 DEF Types
  <2>4. HandInv'
    <3>1. \A y \in Exchanges : Holds(y)' <=> Holds(y)
      BY <1>3 DEF Holds
    <3> QED BY <1>0, <1>1, <1>3, <2>1, <3>1, HandBackEntry DEF Types
  <2> QED BY <2>1, <2>3, <2>4 DEF MuxInv
<1>4. CASE Dispatch(x) /\ UNCHANGED calls
  <2>1. PICK p \in {"acquire", "single"} : ex' = [ex EXCEPT ![x] = [Idle EXCEPT !.pc = p]]
    BY <1>4 DEF Dispatch
  <2> DEFINE e == [Idle EXCEPT !.pc = p]
  <2>2. IsExchange(e) /\ e.pc = p /\ ~e.took
    BY IdleFormed
  <2>3. ex'[x] = e /\ DOMAIN ex' = Exchanges /\ \A y \in Exchanges \ {x} : ex'[y] = ex[y]
    BY <1>0, <2>1 DEF Types
  <2> HIDE DEF e
  <2>4. /\ IdInv' /\ ReadInv' /\ reg'[i] = Free /\ DOMAIN reg' = Ids
        /\ \A j \in Ids \ {i} : reg'[j] = reg[j]
    BY <1>0, <1>1, <2>2, <2>3, EntryLeaves DEF Connected
  <2>5. Types'
    BY <1>0, <1>1, <1>4, <2>2, <2>3, <2>4 DEF Types
  <2>6. HandInv'
    <3>1. ~Holds(x)
      BY <1>0, <1>1, <1>2 DEF HandInv
    <3>2. Holds(x)' /\ \A y \in Exchanges \ {x} : Holds(y)' <=> Holds(y)
      BY <2>2, <2>3 DEF Holds
    <3> QED BY <1>0, <1>1, <1>2, <1>4, <2>4, <3>1, <3>2, HandTaken
  <2> QED BY <2>4, <2>5, <2>6 DEF MuxInv
<1> QED BY <1>2, <1>3, <1>4 DEF ConnDone

\* The context of a query has ended; its AfterFunc has the entry until it calls back.
LEMMA CtxDoneStep == ASSUME MuxInv, NEW i \in Ids, CtxDone(i) PROVE MuxInv'
<1>0. Types /\ IdInv /\ ReadInv /\ HandInv
  BY DEF MuxInv
<1> DEFINE e == [reg[i] EXCEPT !.st = "taken"]
<1>1. reg[i] # Free /\ IsEntry(reg[i])
  BY <1>0 DEF CtxDone, Pending, Types, Free
<1>2. IsEntry(e) /\ e # Free /\ e.x = reg[i].x /\ e.conn = reg[i].conn
  BY <1>1 DEF IsEntry, EntryFields, Free
<1>3. /\ reg' = [reg EXCEPT ![i] = e]
      /\ UNCHANGED <<shared, claimed, used, ex, queryId, reader, sent, calls>>
  BY DEF CtxDone, poolVars
<1> HIDE DEF e
<1>4. DOMAIN reg' = Ids /\ reg'[i] = e /\ \A j \in Ids \ {i} : reg'[j] = reg[j]
  BY <1>0, <1>3 DEF Types
<1>5. Types'
  BY <1>0, <1>2, <1>3, <1>4 DEF Types
<1>6. IdInv'
  <2>1. \A j, q : OwnId(j, q) => OwnId(j, q)'
    BY <1>0, <1>1, <1>2, <1>3, <1>4, OwnIdKept, MuxAssumption DEF Types, Ids
  <2> QED BY <1>0, <1>1, <1>3, <1>4, <2>1 DEF IdInv
<1>7. ReadInv'
  BY <1>0, <1>1, <1>2, <1>3, <1>4, ReadKept
<1>8. HandInv'
  <2>1. \A y \in Exchanges : Holds(y)' <=> Holds(y)
    BY <1>3 DEF Holds
  <2> QED BY <1>0, <1>1, <1>2, <1>3, <1>4, <2>1, HandSame
<1> QED BY <1>5, <1>6, <1>7, <1>8 DEF MuxInv

\* An entry is taken and its query called back.
LEMMA AnswerStep ==
    ASSUME MuxInv, NEW i \in Ids, reg[i] # Free, Take(i), Callback(Query(reg[i].x)),
           UNCHANGED <<ex, queryId, sent>>,
           DOMAIN reader' = Conns, \A c \in Conns : DOMAIN reader'[c] = {"pc", "msg"},
           \A c \in Conns : reader'[c].pc = "complete" => reader'[c] = reader[c],
           \A c \in Conns : reader[c].pc \in {"read", "complete"}
                               => reader'[c].pc \in {"read", "complete"},
           UNCHANGED <<shared, claimed, used>> \/ (shared' = NoConn /\ used' = used)
    PROVE  MuxInv'
<1>0. Types /\ IdInv /\ ReadInv /\ HandInv
  BY DEF MuxInv
<1>1. IsEntry(reg[i]) /\ reg[i].x \in Exchanges
  BY <1>0 DEF Types, IsEntry
<1>2. /\ IdInv' /\ ReadInv' /\ reg'[i] = Free /\ DOMAIN reg' = Ids
      /\ \A j \in Ids \ {i} : reg'[j] = reg[j]
  BY <1>0, EntryLeaves
<1>3. calls' \in [Queries -> Nat]
  <2>1. calls \in [Queries -> Nat] /\ Query(reg[i].x) \in Queries
    BY <1>0, <1>1, QueryOf DEF Types
  <2> QED BY <2>1 DEF Callback
<1>4. Types'
  BY <1>0, <1>2, <1>3 DEF Types
<1>5. HandInv'
  <2>1. \A y \in Exchanges : Holds(y)' <=> Holds(y)
    BY DEF Holds
  <2> QED BY <1>0, <1>1, <1>2, <2>1, HandBackEntry DEF Types
<1> QED BY <1>2, <1>4, <1>5 DEF MuxInv

\* completeContextDone calls back.
LEMMA CtxFinishStep == ASSUME MuxInv, NEW i \in Ids, CtxFinish(i) PROVE MuxInv'
<1>0. Types
  BY DEF MuxInv
<1>1. reg[i] # Free
  <2>1. reg[i].st = "taken"
    BY DEF CtxFinish
  <2> QED BY <2>1 DEF Free
<1>c. Take(i) /\ Callback(Query(reg[i].x)) /\ UNCHANGED <<ex, queryId, reader, sent>>
  BY DEF CtxFinish
<1>2. UNCHANGED <<shared, claimed, used>> \/ (shared' = NoConn /\ used' = used)
  <2>1. InvalidateConn(reg[i].conn) \/ UNCHANGED poolVars
    BY DEF CtxFinish
  <2> QED BY <1>0, <2>1, InvalidateMoves DEF poolVars
<1> QED BY <1>0, <1>1, <1>c, <1>2, AnswerStep DEF Types

\* recvLoop reads a message.
LEMMA ReadStep == ASSUME MuxInv, NEW c \in Conns, Read(c) PROVE MuxInv'
<1>0. Types /\ IdInv /\ ReadInv /\ HandInv
  BY DEF MuxInv
<1>1. PICK m \in sent[c] \union {NoMessage} :
        reader' = [reader EXCEPT ![c] = [pc |-> IF m = NoMessage THEN "read" ELSE "complete",
                                         msg |-> m]]
  BY DEF Read
<1>2. /\ DOMAIN reader' = Conns /\ \A d \in Conns \ {c} : reader'[d] = reader[d]
      /\ DOMAIN reader'[c] = {"pc", "msg"} /\ reader'[c].pc \in {"read", "complete"}
      /\ reader'[c].pc = "complete" => reader'[c].msg \in sent[c]
  BY <1>0, <1>1 DEF Types
<1>3. UNCHANGED <<shared, claimed, used, ex, queryId, sent, calls>>
  BY DEF Read, poolVars
<1>4. /\ DOMAIN reg' = Ids
      /\ \A i \in Ids : \/ reg'[i] = reg[i]
                         \/ /\ reg[i] # Free /\ reg'[i] # Free /\ IsEntry(reg'[i])
                            /\ reg'[i].x = reg[i].x /\ reg'[i].conn = reg[i].conn
  <2>1. \A i \in Ids : reg'[i] = IF Pending(i) /\ reg[i].conn = c
                                 THEN [reg[i] EXCEPT !.silent = FALSE] ELSE reg[i]
    BY DEF Read
  <2>2. \A i \in Ids : Pending(i) => reg[i] # Free /\ IsEntry(reg[i])
    BY <1>0 DEF Pending, Free, Types
  <2>3. \A r : IsEntry(r) => LET s == [r EXCEPT !.silent = FALSE] IN
                  s # Free /\ IsEntry(s) /\ s.x = r.x /\ s.conn = r.conn
    BY DEF IsEntry, EntryFields, Free
  <2>4. DOMAIN reg' = Ids
    BY DEF Read
  <2>5. ASSUME NEW i \in Ids, Pending(i) /\ reg[i].conn = c
        PROVE  /\ reg[i] # Free /\ reg'[i] # Free /\ IsEntry(reg'[i])
               /\ reg'[i].x = reg[i].x /\ reg'[i].conn = reg[i].conn
    <3>1. reg'[i] = [reg[i] EXCEPT !.silent = FALSE]
      BY <2>1, <2>5
    <3>2. reg[i] # Free /\ IsEntry(reg[i])
      BY <2>2, <2>5
    <3> QED BY <2>3, <3>1, <3>2
  <2>6. ASSUME NEW i \in Ids, ~(Pending(i) /\ reg[i].conn = c) PROVE reg'[i] = reg[i]
    BY <2>1, <2>6
  <2> QED BY <2>4, <2>5, <2>6
<1>5. Types'
  BY <1>0, <1>2, <1>3, <1>4 DEF Types
<1>6. IdInv'
  <2>1. \A j, q : OwnId(j, q) => OwnId(j, q)'
    BY <1>0, <1>3, <1>4, OwnIdKept, MuxAssumption DEF Types, Ids
  <2>2. \A i \in Ids : reg'[i] # Free => reg[i] # Free
    BY <1>4
  <2>3. (\A d \in Conns : reader[d].pc = "complete" => OwnId(reader[d].msg.id, reader[d].msg.q))'
    BY <1>0, <1>2, <2>1 DEF IdInv
  <2> QED BY <1>0, <1>3, <2>1, <2>2, <2>3 DEF IdInv
<1>7. ReadInv'
  BY <1>0, <1>2, <1>3, <1>4, ReadKept
<1>8. HandInv'
  <2>1. \A y \in Exchanges : Holds(y)' <=> Holds(y)
    BY <1>3 DEF Holds
  <2> QED BY <1>0, <1>3, <1>4, <2>1, HandSame
<1> QED BY <1>5, <1>6, <1>7, <1>8 DEF MuxInv

\* complete: the answer goes to the entry of its id.
LEMMA CompleteStep == ASSUME MuxInv, NEW c \in Conns, Complete(c)
                      PROVE MuxInv' /\ UNCHANGED foreign
<1>0. Types /\ IdInv /\ ReadInv /\ HandInv
  BY DEF MuxInv
<1>1. PICK i : i = reader[c].msg.id
  OBVIOUS
<1>2. i \in Ids /\ (reg[i] # Free => Query(reg[i].x) = reader[c].msg.q)
  <2>1. OwnId(i, reader[c].msg.q)
    BY <1>0, <1>1 DEF Complete, IdInv
  <2> QED BY <1>0, <2>1, MuxAssumption DEF OwnId, Types, Ids
<1>3. /\ DOMAIN reader' = Conns /\ \A d \in Conns : DOMAIN reader'[d] = {"pc", "msg"}
      /\ \A d \in Conns : reader'[d].pc = "complete" => reader'[d] = reader[d]
      /\ \A d \in Conns : reader[d].pc \in {"read", "complete"}
                            => reader'[d].pc \in {"read", "complete"}
  BY <1>0 DEF Complete, Types
<1>4. UNCHANGED <<shared, claimed, used, ex, queryId, sent>>
  BY DEF Complete, poolVars
<1>c. IF Pending(i)
      THEN /\ Take(i) /\ Callback(Query(reg[i].x))
           /\ foreign' = foreign \union ({Query(reg[i].x)} \ {reader[c].msg.q})
      ELSE UNCHANGED <<reg, calls, foreign>>
  BY <1>1, Zenon DEF Complete
<1>5. CASE Pending(i)
  <2>1. reg[i] # Free
    BY <1>5 DEF Pending, Free
  <2>2. /\ Take(i) /\ Callback(Query(reg[i].x))
        /\ foreign' = foreign \union ({Query(reg[i].x)} \ {reader[c].msg.q})
    BY <1>c, <1>5
  <2>3. MuxInv'
    BY <1>2, <1>3, <1>4, <2>1, <2>2, AnswerStep
  <2> QED BY <1>2, <2>1, <2>2, <2>3
<1>6. CASE ~Pending(i)
  <2>1. UNCHANGED <<reg, calls, foreign>>
    BY <1>c, <1>6
  <2>2. Types'
    BY <1>0, <1>3, <1>4, <2>1 DEF Types
  <2>3. IdInv'
    BY <1>0, <1>3, <1>4, <2>1 DEF IdInv, OwnId
  <2>4. ReadInv'
    BY <1>0, <1>3, <1>4, <2>1, ReadKept
  <2>5. HandInv'
    <3>1. \A y \in Exchanges : Holds(y)' <=> Holds(y)
      BY <1>4 DEF Holds
    <3> QED BY <1>0, <2>1, <3>1, HandSame
  <2> QED BY <2>1, <2>2, <2>3, <2>4, <2>5 DEF MuxInv
<1> QED BY <1>5, <1>6

\* recvLoop ends, and takes the connection out of the pool.
LEMMA ReadFailedStep == ASSUME MuxInv, NEW c \in Conns, ReadFailed(c) PROVE MuxInv'
<1>0. Types /\ IdInv /\ ReadInv /\ HandInv
  BY DEF MuxInv
<1>1. /\ DOMAIN reader' = Conns /\ \A d \in Conns \ {c} : reader'[d] = reader[d]
      /\ DOMAIN reader'[c] = {"pc", "msg"} /\ reader'[c].pc = "stopped"
  BY <1>0 DEF ReadFailed, Types
<1>2. UNCHANGED <<ex, reg, queryId, calls>>
  BY DEF ReadFailed
<1>3. DOMAIN sent' = Conns /\ \A d \in Conns : sent'[d] \subseteq sent[d]
  BY <1>0 DEF ReadFailed, Types
<1>4. /\ UNCHANGED <<shared, claimed, used>> \/ (shared' = NoConn /\ used' = used)
      /\ shared' \in used' \union {NoConn} /\ used' \subseteq Conns
      /\ c # shared'
  BY <1>0, InvalidateMoves, MuxAssumption DEF ReadFailed
<1>5. Types'
  BY <1>0, <1>1, <1>2, <1>3, <1>4 DEF Types
<1>6. IdInv'
  BY <1>0, <1>1, <1>2, <1>3 DEF IdInv, OwnId
<1>7. ReadInv'
  BY <1>0, <1>1, <1>2, <1>4, ReadKept
<1>8. HandInv'
  <2>1. \A y \in Exchanges : Holds(y)' <=> Holds(y)
    BY <1>2 DEF Holds
  <2> QED BY <1>0, <1>2, <2>1, HandSame
<1> QED BY <1>5, <1>6, <1>7, <1>8 DEF MuxInv

\* What the pool does by itself, and what changes nothing the invariant is about.
LEMMA PoolStep ==
    ASSUME MuxInv, Pool \/ (\E q \in Queries : EndCtx(q)) \/ UNCHANGED vars
    PROVE  MuxInv'
<1>0. Types /\ IdInv /\ ReadInv /\ HandInv
  BY DEF MuxInv
<1>1. UNCHANGED <<ex, reg, queryId, reader, sent, calls>>
  BY DEF Pool, EndCtx, vars
<1>2. /\ \/ UNCHANGED <<shared, claimed, used>>
         \/ shared' = NoConn /\ used' = used
         \/ \E d \in Conns \ used : shared' = d /\ claimed' = FALSE /\ used' = used \union {d}
  BY DEF Pool, EndCtx, vars, poolVars, Connect, Replace, EndReplaced
<1>3. Types'
  BY <1>0, <1>1, <1>2 DEF Types
<1>4. IdInv'
  BY <1>0, <1>1 DEF IdInv, OwnId
<1>5. ReadInv'
  <2>1. \A c : Handed(c) => Handed(c)'
    BY <1>0, <1>2, HandedKept
  <2>2. shared' \in Conns /\ claimed' => reader'[shared'].pc \in {"read", "complete"}
    BY <1>0, <1>1, <1>2, MuxAssumption DEF ReadInv
  <2> QED BY <1>0, <1>1, <2>1, <2>2 DEF ReadInv
<1>6. HandInv'
  <2>1. \A y \in Exchanges : Holds(y)' <=> Holds(y)
    BY <1>1 DEF Holds
  <2> QED BY <1>0, <1>1, <2>1, HandSame
<1> QED BY <1>3, <1>4, <1>5, <1>6 DEF MuxInv

-----------------------------------------------------------------------------
\* Every step keeps the invariant, and no step gives a query a foreign answer.
LEMMA NextMux == ASSUME MuxInv, [Next]_vars PROVE MuxInv' /\ UNCHANGED foreign
<1>1. ASSUME NEW x \in Exchanges, Single(x) \/ AcquireFails(x) \/ RegisterFull(x)
      PROVE MuxInv' /\ UNCHANGED foreign
  BY <1>1, FinishStep DEF Single, AcquireFails, RegisterFull, At, Holds, poolVars
<1>2. ASSUME NEW x \in Exchanges, Acquire(x) PROVE MuxInv' /\ UNCHANGED foreign
  BY <1>2, AcquireStep DEF Acquire
<1>3. ASSUME NEW x \in Exchanges, Register(x) PROVE MuxInv' /\ UNCHANGED foreign
  BY <1>3, RegisterStep DEF Register
<1>4. ASSUME NEW x \in Exchanges, WriteOut(x) PROVE MuxInv' /\ UNCHANGED foreign
  BY <1>4, WriteOutStep DEF WriteOut
<1>5. ASSUME NEW x \in Exchanges, WriteFails(x) PROVE MuxInv' /\ UNCHANGED foreign
  BY <1>5, WriteFailsStep DEF WriteFails
<1>6. ASSUME NEW x \in Exchanges, WriteFailed(x) PROVE MuxInv' /\ UNCHANGED foreign
  BY <1>6, WriteFailedStep DEF WriteFailed
<1>7. ASSUME NEW i \in Ids, ConnDone(i) PROVE MuxInv' /\ UNCHANGED foreign
  BY <1>7, ConnDoneStep DEF ConnDone
<1>8. ASSUME NEW i \in Ids, CtxDone(i) PROVE MuxInv' /\ UNCHANGED foreign
  BY <1>8, CtxDoneStep DEF CtxDone
<1>9. ASSUME NEW i \in Ids, CtxFinish(i) PROVE MuxInv' /\ UNCHANGED foreign
  BY <1>9, CtxFinishStep DEF CtxFinish
<1>10. ASSUME NEW c \in Conns, Read(c) PROVE MuxInv' /\ UNCHANGED foreign
  BY <1>10, ReadStep DEF Read
<1>11. ASSUME NEW c \in Conns, Complete(c) PROVE MuxInv' /\ UNCHANGED foreign
  BY <1>11, CompleteStep
<1>12. ASSUME NEW c \in Conns, ReadFailed(c) PROVE MuxInv' /\ UNCHANGED foreign
  BY <1>12, ReadFailedStep DEF ReadFailed
<1>13. ASSUME Pool \/ (\E q \in Queries : EndCtx(q)) \/ UNCHANGED vars
       PROVE MuxInv' /\ UNCHANGED foreign
  BY <1>13, PoolStep DEF Pool, EndCtx, vars
<1> QED BY <1>1, <1>2, <1>3, <1>4, <1>5, <1>6, <1>7, <1>8, <1>9, <1>10, <1>11, <1>12, <1>13
        DEF Next

\* Counting the hands of a query.
LEMMA HandCount == ASSUME Types, HandInv PROVE OneHand
<1> SUFFICES ASSUME NEW q \in Queries
             PROVE  Cardinality(Busy(q)) + Cardinality(Entries(q)) + calls[q] = 1
  BY DEF OneHand
<1>1. Busy(q) = {x \in Exchanges : Query(x) = q /\ Holds(x)}
  BY DEF Busy, Holds
<1>2. CASE /\ calls[q] = 1
           /\ \A x \in Exchanges : Holds(x) => Query(x) # q
           /\ \A i \in Ids : reg[i] # Free => Query(reg[i].x) # q
  <2>1. Busy(q) = {} /\ Entries(q) = {}
    BY <1>1, <1>2 DEF Entries
  <2>2. Cardinality(Busy(q)) = 0 /\ Cardinality(Entries(q)) = 0
    BY <2>1, FS_EmptySet
  <2> QED BY <1>2, <2>2
<1>3. ASSUME calls[q] = 0, NEW x \in Exchanges, Holds(x), Query(x) = q
      PROVE  Cardinality(Busy(q)) + Cardinality(Entries(q)) + calls[q] = 1
  <2>1. Busy(q) = {x} /\ Entries(q) = {}
    BY <1>1, <1>3 DEF HandInv, Entries
  <2>2. Cardinality(Busy(q)) = 1 /\ Cardinality(Entries(q)) = 0
    BY <2>1, FS_EmptySet, FS_Singleton
  <2> QED BY <1>3, <2>2
<1>4. ASSUME calls[q] = 0, NEW i \in Ids, reg[i] # Free, Query(reg[i].x) = q
      PROVE  Cardinality(Busy(q)) + Cardinality(Entries(q)) + calls[q] = 1
  <2>1. Busy(q) = {} /\ Entries(q) = {i}
    BY <1>1, <1>4 DEF HandInv, Entries
  <2>2. Cardinality(Busy(q)) = 0 /\ Cardinality(Entries(q)) = 1
    BY <2>1, FS_EmptySet, FS_Singleton
  <2> QED BY <1>4, <2>2
<1> QED BY <1>2, <1>3, <1>4 DEF HandInv

\* The invariant holds throughout.
LEMMA MuxInvariant == Spec => [](MuxInv /\ AnswerIsOwn)
<1>1. Init => MuxInv /\ AnswerIsOwn
  BY InitMux DEF Init, AnswerIsOwn
<1>2. MuxInv /\ AnswerIsOwn /\ [Next]_vars => (MuxInv /\ AnswerIsOwn)'
  BY NextMux DEF AnswerIsOwn
<1> QED BY <1>1, <1>2, PTL DEF Spec

\* Of all the goroutines that may end a query one has to call back and no two may:
\* with any number of queries, connections and registrations.
THEOREM QueryInOneHand == Spec => []OneHand
<1>1. MuxInv => OneHand
  BY HandCount DEF MuxInv
<1> QED BY <1>1, MuxInvariant, PTL

\* No answer is taken for that of another query, since an id stays with the query
\* it was given to: in m.queries, with the writer, at the server and in recvLoop.
THEOREM AnswersAreOwn == Spec => []AnswerIsOwn
  BY MuxInvariant, PTL

\* A query in m.queries is left to a connection that is read, or was taken away.
THEOREM PendingQueriesAreRead == Spec => []PendingIsRead
<1>1. MuxInv => PendingIsRead
  BY MuxAssumption DEF MuxInv, Types, ReadInv, Handed, PendingIsRead, Pending, Free
<1> QED BY <1>1, MuxInvariant, PTL
=============================================================================
