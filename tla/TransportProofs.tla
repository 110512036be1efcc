-------------------------- MODULE TransportProofs --------------------------
(***************************************************************************)
(* The proofs about the connections that the transports keep: the socket   *)
(* of the WireGuard client bind, and the connection pool of XHTTP.         *)
(***************************************************************************)
EXTENDS XmuxPool, ClientBind, FiniteSetTheorems, TLAPS

-----------------------------------------------------------------------------
(***************************************************************************)
(* Proofs about ClientBind, for any number of senders, sockets, and calls  *)
(* of Open and Close.                                                      *)
(***************************************************************************)

\* The names of the receiver, of the device and of nobody are not senders'.
NamesApart == {Receiver, Device, Nobody} \cap Senders = {}

\* The holder of connAccess between Lock and the end of connect.
Holding == {"check", "dial", "dialing"}

\* The types, as far as they matter: a socket in use is one that was made.
BindTypes ==
    /\ DOMAIN user = BindUsers
    /\ \A u \in BindUsers : /\ DOMAIN user[u] = {"pc", "ch", "ctx", "sock"}
                         /\ user[u].ch \in Nat /\ user[u].ctx \in Nat
    /\ done \in Nat /\ bindCtx \in Nat /\ sockets \in Nat /\ conn \in 0..sockets
    /\ open \subseteq 1..sockets /\ ended \subseteq 1..sockets
    /\ \A u \in BindUsers : user[u].sock \in 0..sockets
    /\ \A u \in BindUsers : user[u].pc \in {"use", "closing", "inside"} => user[u].sock # 0

\* connAccess excludes.
Locking ==
    /\ \A u \in BindUsers : user[u].pc \in Holding <=> lock = u
    /\ dev \in {"close", "inside"} <=> lock = Device

\* Which channels and contexts are closed, at each place of the device.
Channels ==
    /\ shut \subseteq 0..done /\ \A c \in Nat : c < done => c \in shut
    /\ \A c \in Nat : c < bindCtx => c \in cancelled \/ c = 0
    /\ dev \in {"cancel", "lock", "close", "inside", "wait", "open"} => done \in shut
    /\ dev \in {"lock", "close", "inside", "wait", "open", "context"} => bindCtx \in cancelled
    /\ dev = "idle" /\ ~up /\ bindCtx # 0 => done \in shut /\ bindCtx \in cancelled
    /\ (dev = "idle" /\ up) \/ dev = "start" => bindCtx # 0
    /\ \A u \in BindUsers :
         /\ user[u].pc = "check" => user[u].ch <= done
         /\ user[u].pc = "dialing" => user[u].ctx <= bindCtx /\ user[u].ctx # 0
         /\ user[u].pc \notin {"idle", "over"} => bindCtx # 0

\* The sockets: one that is open is c.conn, and it is replaced when it has ended.
Sockets ==
    /\ open \subseteq {conn}
    /\ open \cap ended = {}
    /\ \A u \in BindUsers : user[u].pc \in {"dial", "dialing"} => conn = 0 \/ conn \in ended
    /\ \A u \in BindUsers : user[u].pc = "inside" => user[u].sock \notin open
    /\ dev = "inside" => conn # 0 /\ conn \notin open
    /\ Shut => open = {} /\ \A u \in BindUsers : user[u].pc \notin {"dial", "dialing"}

\* The receiver ends in a bind that is closed, and another one is started later.
Receiving ==
    /\ up => dev = "idle" /\ done \notin shut /\ user[Receiver].pc # "over"
    /\ dev \in {"open", "context", "start"} => user[Receiver].pc = "over"

\* What Open has made has not been closed.
Fresh == dev \in {"context", "start"} => done \notin shut

\* The inductive invariant.
BindInv == BindTypes /\ Locking /\ Channels /\ Sockets /\ DoneClosedOnce /\ Receiving /\ Fresh

\* At the start there is no socket, and no receiver.
LEMMA InitInv == ASSUME NamesApart, BindInit PROVE BindInv
<1> USE DEF BindInit
<1>1. BindTypes
  BY DEF BindTypes
<1>2. Locking
  BY DEF NamesApart, Locking, Holding, BindUsers, Receiver, Device, Nobody
<1>3. Channels
  BY DEF Channels
<1>4. Sockets
  BY DEF Sockets, Shut
<1>5. DoneClosedOnce /\ Receiving /\ Fresh
  BY DEF DoneClosedOnce, Receiving, Fresh
<1> QED BY <1>1, <1>2, <1>3, <1>4, <1>5 DEF BindInv

\* A step of a sender or of the receiver keeps the invariant.
LEMMA UserInv == ASSUME NamesApart, BindInv, NEW u \in BindUsers, UserStep(u) PROVE BindInv'
<1> USE DEF BindInv, deviceVars, BindUsers, NamesApart, Receiver, Device, Nobody,
           BindTypes, Locking, Holding, LiveSocket
\* The look at c.conn without the lock finds a socket that was made, or none.
<1>1. CASE Connect(u)
  <2>1. BindTypes' /\ Locking' /\ DoneClosedOnce'
    BY <1>1 DEF Connect, Sockets, DoneClosedOnce, NobodyInside
  <2>2. Channels' /\ Receiving' /\ Fresh' /\ Sockets'
    BY <1>1 DEF Connect, Channels, Receiving, Fresh, Sockets, Shut
  <2> QED BY <2>1, <2>2
\* The lock is free, so nobody else is past it; the channel that is read is the present one.
<1>2. CASE Lock(u)
  <2>1. BindTypes' /\ Locking' /\ DoneClosedOnce'
    BY <1>2 DEF Lock, Sockets, DoneClosedOnce, NobodyInside
  <2>2. Channels' /\ Receiving' /\ Fresh' /\ Sockets'
    BY <1>2 DEF Lock, Channels, Receiving, Fresh, Sockets, Shut
  <2> QED BY <2>1, <2>2
\* The dial begins only if the channel was open and c.conn has ended.
<1>3. CASE Check(u)
  <2>1. BindTypes' /\ Locking' /\ DoneClosedOnce'
    BY <1>3 DEF Check, Sockets, DoneClosedOnce, NobodyInside
  <2>2. Channels' /\ Receiving' /\ Fresh' /\ Sockets'
    BY <1>3 DEF Check, Channels, Receiving, Fresh, Sockets, Shut
  <2> QED BY <2>1, <2>2
\* The context that is read is the present one.
<1>4. CASE BindDial(u)
  <2>1. BindTypes' /\ Locking' /\ DoneClosedOnce'
    BY <1>4 DEF BindDial, Sockets, DoneClosedOnce, NobodyInside
  <2>2. Channels' /\ Receiving' /\ Fresh' /\ Sockets'
    BY <1>4 DEF BindDial, Channels, Receiving, Fresh, Sockets, Shut
  <2> QED BY <2>1, <2>2
\* The new socket is the only one that is open, because c.conn had ended.
<1>5. CASE Dialed(u)
  <2>1. BindTypes' /\ Locking' /\ DoneClosedOnce'
    BY <1>5 DEF Dialed, Sockets, DoneClosedOnce, NobodyInside
  <2>2. Channels' /\ Receiving' /\ Fresh' /\ Sockets'
    BY <1>5 DEF Dialed, Channels, Receiving, Fresh, Sockets, Shut
  <2> QED BY <2>1, <2>2
\* A dial that fails gives up the lock and changes nothing else.
<1>6. CASE DialFails(u)
  <2>1. BindTypes' /\ Locking' /\ DoneClosedOnce'
    BY <1>6 DEF DialFails, Sockets, DoneClosedOnce, NobodyInside
  <2>2. Channels' /\ Receiving' /\ Fresh' /\ Sockets'
    BY <1>6 DEF DialFails, Channels, Receiving, Fresh, Sockets, Shut
  <2> QED BY <2>1, <2>2
\* A packet changes nothing.
<1>7. CASE Packet(u)
  <2>1. BindTypes' /\ Locking' /\ DoneClosedOnce'
    BY <1>7 DEF Packet, Sockets, DoneClosedOnce, NobodyInside
  <2>2. Channels' /\ Receiving' /\ Fresh' /\ Sockets'
    BY <1>7 DEF Packet, Channels, Receiving, Fresh, Sockets, Shut
  <2> QED BY <2>1, <2>2
\* An error of the socket leads to its Close.
<1>8. CASE PacketFails(u)
  <2>1. BindTypes' /\ Locking' /\ DoneClosedOnce'
    BY <1>8 DEF PacketFails, Sockets, DoneClosedOnce, NobodyInside
  <2>2. Channels' /\ Receiving' /\ Fresh' /\ Sockets'
    BY <1>8 DEF PacketFails, Channels, Receiving, Fresh, Sockets, Shut
  <2> QED BY <2>1, <2>2
\* wireConn.Close by receive or Send: its lock keeps the others out.
<1>9. CASE CloseSocket(u)
  <2>1. BindTypes' /\ Locking' /\ DoneClosedOnce'
    BY <1>9 DEF CloseSocket, Sockets, DoneClosedOnce, NobodyInside
  <2>2. Channels' /\ Receiving' /\ Fresh' /\ Sockets'
    BY <1>9 DEF CloseSocket, Channels, Receiving, Fresh, Sockets, Shut
  <2> QED BY <2>1, <2>2
\* The socket was closed before its done is.
<1>10. CASE CloseSocketDone(u)
  <2>1. BindTypes' /\ Locking' /\ DoneClosedOnce'
    BY <1>10 DEF CloseSocketDone, Sockets, DoneClosedOnce, NobodyInside
  <2>2. Channels' /\ Receiving' /\ Fresh' /\ Sockets'
    BY <1>10 DEF CloseSocketDone, Channels, Receiving, Fresh, Sockets, Shut
  <2> QED BY <2>1, <2>2
\* The receiver is over only in a bind that is closed.
<1>11. CASE Failed(u)
  <2>1. BindTypes' /\ Locking' /\ DoneClosedOnce'
    BY <1>11 DEF Failed, Sockets, DoneClosedOnce, NobodyInside
  <2>2. Channels' /\ Receiving' /\ Fresh' /\ Sockets'
    BY <1>11 DEF Failed, Channels, Receiving, Fresh, Sockets, Shut
  <2> QED BY <2>1, <2>2
<1> QED BY <1>1, <1>2, <1>3, <1>4, <1>5, <1>6, <1>7, <1>8, <1>9, <1>10, <1>11, Zenon DEF UserStep

\* So does a step of Open or of Close.
LEMMA DeviceInv == ASSUME NamesApart, BindInv, DeviceStep PROVE BindInv'
<1> USE DEF BindInv, deviceVars, BindUsers, NamesApart, Receiver, Device, Nobody,
           BindTypes, Locking, Holding, LiveSocket
\* From here on c.done is closed.
<1>1. CASE BindClose
  <2>1. BindTypes' /\ Locking' /\ DoneClosedOnce'
    BY <1>1 DEF BindClose, Sockets, DoneClosedOnce, NobodyInside
  <2>2. Channels' /\ Receiving' /\ Fresh'
    BY <1>1 DEF BindClose, Channels, Receiving, Fresh
  <2>3. Sockets'
    BY <1>1 DEF BindClose, Channels, Receiving, Fresh, Sockets, Shut
  <2> QED BY <2>1, <2>2, <2>3
\* From here on the context is cancelled.
<1>2. CASE CloseCancel
  <2>1. BindTypes' /\ Locking' /\ DoneClosedOnce'
    BY <1>2 DEF CloseCancel, Sockets, DoneClosedOnce, NobodyInside
  <2>2. Channels' /\ Receiving' /\ Fresh' /\ Sockets'
    BY <1>2, Zenon DEF CloseCancel, Channels, Receiving, Fresh, Sockets, Shut
  <2> QED BY <2>1, <2>2
\* The lock was free, so nobody dials, and nobody will: c.done is closed.
<1>3. CASE CloseLock
  <2>1. BindTypes' /\ Locking' /\ DoneClosedOnce'
    BY <1>3 DEF CloseLock, Sockets, DoneClosedOnce, NobodyInside
  <2>2. Channels' /\ Receiving' /\ Fresh' /\ Sockets'
    BY <1>3, Zenon DEF CloseLock, Channels, Receiving, Fresh, Sockets, Shut
  <2> QED BY <2>1, <2>2, Zenon
\* c.conn is the only socket that can be open.
<1>4. CASE CloseConn
  <2>1. BindTypes' /\ Locking' /\ DoneClosedOnce'
    BY <1>4, Zenon DEF CloseConn, Sockets, DoneClosedOnce, NobodyInside
  <2>2. Channels' /\ Receiving' /\ Fresh' /\ Sockets'
    <3>1. Channels' /\ Receiving' /\ Fresh'
      BY <1>4 DEF CloseConn, Channels, Receiving, Fresh
    <3>2. (~LiveSocket => open = {}) /\ \A v \in BindUsers : user[v].pc \notin {"dial", "dialing"}
      BY <1>4 DEF CloseConn, Sockets
    <3>3. Sockets'
      BY <1>4, <3>2, Zenon DEF CloseConn, Sockets, Shut
    <3> QED BY <3>1, <3>3, Zenon
  <2> QED BY <2>1, <2>2, Zenon
\* When the lock is given up no socket is open.
<1>5. CASE CloseConnDone
  <2>1. BindTypes' /\ Locking' /\ DoneClosedOnce'
    <3>0. conn \in 1..sockets
      BY <1>5 DEF CloseConnDone, Sockets
    <3>1. BindTypes'
      BY <1>5, <3>0, Zenon DEF CloseConnDone
    <3>2. Locking'
      BY <1>5 DEF CloseConnDone
    <3>3. DoneClosedOnce'
      BY <1>5 DEF CloseConnDone, Sockets, DoneClosedOnce, NobodyInside
    <3> QED BY <3>1, <3>2, <3>3
  <2>2. Channels' /\ Receiving' /\ Fresh' /\ Sockets'
    BY <1>5, Zenon DEF CloseConnDone, Channels, Receiving, Fresh, Sockets, Shut
  <2> QED BY <2>1, <2>2
\* Nothing is opened while the device waits for the receiver.
<1>6. CASE Wait
  <2>1. BindTypes' /\ Locking' /\ DoneClosedOnce'
    BY <1>6 DEF Wait, Sockets, DoneClosedOnce, NobodyInside
  <2>2. Channels' /\ Receiving' /\ Fresh' /\ Sockets'
    BY <1>6, Zenon DEF Wait, Channels, Receiving, Fresh, Sockets, Shut
  <2> QED BY <2>1, <2>2, Zenon
\* The new channel has not been closed.
<1>7. CASE Open
  <2>1. BindTypes' /\ Locking' /\ DoneClosedOnce'
    BY <1>7 DEF Open, Sockets, DoneClosedOnce, NobodyInside
  <2>2. Channels' /\ Receiving' /\ Fresh'
    BY <1>7 DEF Open, Channels, Receiving, Fresh
  <2>3. Sockets'
    BY <1>7 DEF Open, Channels, Receiving, Fresh, Sockets, Shut
  <2> QED BY <2>1, <2>2, <2>3, Zenon
\* The context that is replaced was cancelled by the Close before.
<1>8. CASE OpenContext
  <2>1. BindTypes' /\ Locking' /\ DoneClosedOnce'
    BY <1>8 DEF OpenContext, Sockets, DoneClosedOnce, NobodyInside
  <2>2. Channels' /\ Receiving' /\ Fresh'
    BY <1>8 DEF OpenContext, Channels, Receiving, Fresh
  <2>3. Sockets'
    BY <1>8 DEF OpenContext, Channels, Receiving, Fresh, Sockets, Shut
  <2> QED BY <2>1, <2>2, <2>3
\* The receiver that is started was over.
<1>9. CASE StartReceiver
  <2>1. BindTypes' /\ Locking' /\ DoneClosedOnce'
    <3>1. BindTypes' /\ Locking'
      BY <1>9 DEF StartReceiver, Receiving
    <3>2. DoneClosedOnce'
      BY <1>9 DEF StartReceiver, Sockets, DoneClosedOnce, NobodyInside
    <3> QED BY <3>1, <3>2
  <2>2. Channels' /\ Receiving' /\ Fresh' /\ Sockets'
    BY <1>9 DEF StartReceiver, Channels, Receiving, Fresh, Sockets, Shut
  <2> QED BY <2>1, <2>2
<1> QED BY <1>1, <1>2, <1>3, <1>4, <1>5, <1>6, <1>7, <1>8, <1>9, Zenon DEF DeviceStep

\* No step breaks the invariant.
LEMMA NextInv == ASSUME NamesApart, BindInv, [BindNext]_bindVars PROVE BindInv'
<1>1. CASE UNCHANGED bindVars
  <2> USE <1>1 DEF bindVars, BindInv
  <2>1. BindTypes' /\ Locking'
    BY DEF BindTypes, Locking
  <2>2. Channels' /\ Receiving' /\ Fresh'
    BY DEF Channels, Receiving, Fresh
  <2>3. Sockets' /\ DoneClosedOnce'
    BY Zenon DEF Sockets, DoneClosedOnce, Shut
  <2> QED BY <2>1, <2>2, <2>3
<1> QED BY <1>1, UserInv, DeviceInv DEF BindNext

\* The invariant holds in every reachable state.
LEMMA InvHolds == ASSUME NamesApart PROVE BindSpec => []BindInv
BY InitInv, NextInv, PTL DEF BindSpec

\* Once Close has returned the bind has no socket and nobody dials one, and no socket
\* is ever out of Close's reach.
THEOREM BindLeavesNoSocket == ASSUME NamesApart PROVE BindSpec => []NoSocketLeft
<1>1. BindInv => NoSocketLeft
  BY DEF BindInv, Sockets, NoSocketLeft
<1> QED BY <1>1, InvHolds, PTL

\* Close never waits for a dial whose context has not been cancelled.
THEOREM CloseIsNotStuck == ASSUME NamesApart PROVE BindSpec => []CloseNotStuck
<1>1. BindInv => CloseNotStuck
  BY DEF BindInv, BindTypes, Channels, CloseNotStuck
<1> QED BY <1>1, InvHolds, PTL

\* wireConn.Close closes done once for each socket, whoever calls it.
THEOREM SocketClosedOnce == ASSUME NamesApart PROVE BindSpec => []DoneClosedOnce
<1>1. BindInv => DoneClosedOnce
  BY DEF BindInv
<1> QED BY <1>1, InvHolds, PTL

\* While the bind is open its receiver does not end, whatever its reads and dials meet.
THEOREM ReceiverGoesOn == ASSUME NamesApart PROVE BindSpec => []ReceiverStays
<1>1. BindInv => ReceiverStays
  BY DEF BindInv, Receiving, ReceiverStays
<1> QED BY <1>1, InvHolds, PTL

-----------------------------------------------------------------------------
(***************************************************************************)
(* Proofs about XmuxPool, for any number of streams and connections, any   *)
(* limits and any length of run.                                           *)
(***************************************************************************)

USE DEF managerVars, poolVars, limitVars, usageVars, breakerVars, requestVars,
        dialVars

-----------------------------------------------------------------------------
\* The request budget of a connection without a limit.
LEMMA MaxInt32Type == MaxInt32 \in Nat
  BY SMT DEF MaxInt32

\* The lock: the stream that is between the two halves of get is the one that
\* holds xmuxManager.access.  A stream past get has a connection, and only such
\* a stream talks to its connection or to the breaker, or calls release.
StreamsInv ==
    /\ \A s \in Streams : access = s <=> at[s] = "picking"
    /\ \A s \in Streams : at[s] \in {"got", "held", "failed", "ended"} => client[s] \in opened
    /\ \A s \in Streams :
         inflight[s] > 0 \/ note[s] # "none" => at[s] \in {"held", "ended"} /\ events[s] > 0
    /\ \A s \in Streams : releases[s] > 0 => at[s] = "ended"

\* get opens a connection that was not opened before.
LEMMA NewIsFresh ==
    ASSUME PoolTypeOK, NEW s \in Streams, GetNew(s)
    PROVE  \E c \in Conns \ opened : NewClient(c) /\ HandOut(s, c)
<1>1. \E c \in Conns : c \notin opened
  BY Zenon DEF GetNew, PoolTypeOK
<1>2. NextConn \in Conns /\ NextConn \notin opened
  BY <1>1, Zenon DEF NextConn
<1> QED BY <1>2, Zenon DEF GetNew

\* The end of a stream changes its place, its releases and the connection it leaves.
LEMMA LeaveFrame ==
    ASSUME NEW s \in Streams, Leave(s)
    PROVE  /\ UNCHANGED <<managerVars, poolVars, limitVars, breakerVars, requestVars, clock,
                          client, wakeAt>>
           /\ at' = at \/ at' = [at EXCEPT ![s] = "failed"] \/ at' = [at EXCEPT ![s] = "ended"]
<1>1. CASE DialModeFails(s)
  BY <1>1, Zenon DEF DialModeFails
<1>2. CASE End(s)
  BY <1>2, Zenon DEF End
<1>3. CASE Release(s)
  BY <1>3, Zenon DEF Release
<1> QED BY <1>1, <1>2, <1>3 DEF Leave

\* Init and every step keep each variable in its type, and the lock and the
\* streams in step.
THEOREM TypeCorrect == PoolSpec => [](PoolTypeOK /\ StreamsInv)
<1> USE SetsAssumption, RangesAssumption, BreakerAssumption
<1>1. PoolInit => PoolTypeOK /\ StreamsInv
  <2> SUFFICES ASSUME PoolInit PROVE PoolTypeOK /\ StreamsInv
    OBVIOUS
  <2>1. PoolTypeOK
    <3>1. /\ concurrency \in Nat /\ connections \in Nat
          /\ backoffDelay \in 0..BackoffCap /\ blockedUntil \in Nat /\ clock \in Nat
      BY DEF PoolInit
    <3>2. /\ leftRequests \in [Conns -> Int] /\ leftUsage \in [Conns -> Nat \union {-1}]
      BY MaxInt32Type DEF PoolInit
    <3>3. backoffArmed \in BOOLEAN
      BY Zenon DEF PoolInit
    <3> QED BY <3>1, <3>2, <3>3 DEF PoolInit, PoolTypeOK
  <2>2. StreamsInv
    BY SMTT(60) DEF PoolInit, StreamsInv
  <2> QED BY <2>1, <2>2
<1>2. PoolTypeOK /\ StreamsInv /\ [PoolNext]_xmuxVars => PoolTypeOK' /\ StreamsInv'
  <2> SUFFICES ASSUME PoolTypeOK, StreamsInv, [PoolNext]_xmuxVars
               PROVE  PoolTypeOK' /\ StreamsInv'
    OBVIOUS
  <2> USE DEF PoolTypeOK, StreamsInv
  <2>1. ASSUME NEW s \in Streams, GetEvict(s)
        PROVE  PoolTypeOK' /\ StreamsInv'
    BY <2>1 DEF GetEvict, CloseClients, CloseConns
  <2>2. ASSUME NEW s \in Streams, GetNew(s)
        PROVE  PoolTypeOK' /\ StreamsInv'
    <3> PICK c \in Conns \ opened : NewClient(c) /\ HandOut(s, c)
      BY <2>2, NewIsFresh
    <3>1. leftUsage' \in [Conns -> Nat \union {-1}]
      <4> PICK x \in CMaxReuseTimes :
            leftUsage' = [leftUsage EXCEPT ![c] = IF x > 0 THEN x - 1 ELSE -1]
        BY ZenonT(60) DEF NewClient
      <4> QED OBVIOUS
    <3>2. leftRequests' \in [Conns -> Int]
      <4> PICK x \in HMaxRequestTimes :
            leftRequests' = [leftRequests EXCEPT ![c] = IF x > 0 THEN x ELSE MaxInt32]
        BY ZenonT(60) DEF NewClient
      <4> QED BY MaxInt32Type
    <3>3. unreusableAt' \in [Conns -> Nat]
      <4> PICK x \in HMaxReusableSecs :
            unreusableAt' = [unreusableAt EXCEPT ![c] = IF x > 0 THEN clock + x ELSE 0]
        BY ZenonT(60) DEF NewClient
      <4> QED OBVIOUS
    <3>4. PoolTypeOK'
      BY <2>2, <3>1, <3>2, <3>3 DEF GetNew, NewClient, HandOut
    <3>5. StreamsInv'
      BY <2>2 DEF GetNew, NewClient, HandOut
    <3> QED BY <3>4, <3>5
  <2>3. ASSUME NEW s \in Streams, GetReuse(s)
        PROVE  PoolTypeOK' /\ StreamsInv'
    BY <2>3 DEF GetReuse, HandOut, Candidates
  <2>4. ASSUME NEW s \in Streams, GetWait(s)
        PROVE  PoolTypeOK' /\ StreamsInv'
    BY <2>4 DEF GetWait
  <2>5. ASSUME NEW s \in Streams, Wake(s) \/ CancelWait(s)
        PROVE  PoolTypeOK' /\ StreamsInv'
    BY <2>5 DEF Wake, CancelWait
  <2>6. ASSUME NEW s \in Streams, Join(s) \/ Leave(s)
        PROVE  PoolTypeOK' /\ StreamsInv'
    <3>1. CASE Join(s)
      <4>1. openUsage' \in [Conns -> Int]
        BY <3>1 DEF Join, AddUsage
      <4> QED BY <3>1, <4>1 DEF Join, AddUsage, CloseConns
    <3>2. CASE DialModeFails(s)
      <4>1. openUsage' \in [Conns -> Int]
        BY <3>2 DEF DialModeFails, AddUsage
      <4> QED BY <3>2, <4>1 DEF DialModeFails, AddUsage, CloseConns
    <3>3. CASE End(s)
      BY <3>3 DEF End
    <3>4. CASE Release(s)
      <4>1. CASE releases[s] = 0
        <5>1. openUsage' \in [Conns -> Int]
          BY <3>4, <4>1 DEF Release, AddUsage
        <5> QED BY <3>4, <4>1, <5>1 DEF Release, AddUsage, CloseConns
      <4>2. CASE releases[s] # 0
        BY <3>4, <4>2 DEF Release
      <4> QED BY <4>1, <4>2
    <3> QED BY <2>6, <3>1, <3>2, <3>3, <3>4 DEF Leave
  <2>7. ASSUME NEW s \in Streams, BeginRequest(s)
        PROVE  PoolTypeOK' /\ StreamsInv'
    BY <2>7 DEF BeginRequest, CanAct
  <2>8. ASSUME NEW s \in Streams, EndRequest(s)
        PROVE  PoolTypeOK' /\ StreamsInv'
    BY <2>8 DEF EndRequest
  <2>9. ASSUME NEW s \in Streams, FailRequest(s)
        PROVE  PoolTypeOK' /\ StreamsInv'
    BY <2>9 DEF FailRequest, CountFailure
  <2>10. ASSUME NEW s \in Streams, ReadFails(s)
         PROVE  PoolTypeOK' /\ StreamsInv'
    BY <2>10 DEF ReadFails, CountFailure, CanAct
  <2>11. ASSUME NEW s \in Streams, StoreFailing(s)
         PROVE  PoolTypeOK' /\ StreamsInv'
    BY <2>11 DEF StoreFailing
  <2>12. ASSUME NEW s \in Streams, NoteBreakerTrip(s)
         PROVE  PoolTypeOK' /\ StreamsInv'
    <3>1. NextDelay \in 0..BackoffCap
      BY DEF NextDelay
    <3>2. PoolTypeOK'
      BY <2>12, <3>1 DEF NoteBreakerTrip
    <3>3. StreamsInv'
      BY SMTT(60), <2>12 DEF NoteBreakerTrip
    <3> QED BY <3>2, <3>3
  <2>13. ASSUME NEW s \in Streams, NoteSuccess(s) \/ ResetBackoff(s)
         PROVE  PoolTypeOK' /\ StreamsInv'
    <3>1. CASE NoteSuccess(s)
      <4>1. note' \in [Streams -> {"none", "store", "trip", "reset"}]
        BY <3>1 DEF NoteSuccess
      <4> QED BY <3>1, <4>1 DEF NoteSuccess, CanAct
    <3>2. CASE ResetBackoff(s)
      <4>1. backoffArmed' \in BOOLEAN
        BY <3>2, Zenon DEF ResetBackoff
      <4> QED BY <3>2, <4>1 DEF ResetBackoff
    <3> QED BY <2>13, <3>1, <3>2
  <2>14. CASE CloseTake
    BY <2>14 DEF CloseTake
  <2>15. ASSUME NEW c \in Conns, CloseOne(c)
         PROVE  PoolTypeOK' /\ StreamsInv'
    BY <2>15 DEF CloseOne, CloseClients, CloseConns
  <2>16. CASE PoolTick
    BY <2>16 DEF PoolTick
  <2>17. CASE UNCHANGED xmuxVars
    BY <2>17 DEF xmuxVars
  <2>18. QED
    BY ZenonT(60), <2>1, <2>2, <2>3, <2>4, <2>5, <2>6, <2>7, <2>8, <2>9, <2>10, <2>11,
       <2>12, <2>13, <2>14, <2>15, <2>16, <2>17 DEF PoolNext, Dial, Carry
<1>3. QED
  BY <1>1, <1>2, PTL DEF PoolSpec

-----------------------------------------------------------------------------
\* What the pool's steps preserve together: the usage counts, the fate of the
\* retired connections, and where each opened connection is.  The last conjunct
\* says that a connection nobody opened was not given up either.
PoolInv ==
    /\ UsageExact
    /\ RetiredIsTornDown
    /\ NoConnectionLost
    /\ \A c \in Conns : retired[c] => c \in opened

\* The streams on a connection are finitely many, and openUsage is 0 or less
\* exactly when there are none.
LEMMA HoldersFinite ==
    ASSUME NEW c PROVE IsFiniteSet(Holders(c))
  BY SetsAssumption, FS_Subset DEF Holders

\* OpenUsage is zero exactly when no stream holds the connection.
LEMMA UsageZero ==
    ASSUME UsageExact, NEW c \in Conns
    PROVE  /\ openUsage[c] \in Nat
           /\ openUsage[c] <= 0 <=> Holders(c) = {}
  <1>1. openUsage[c] = Cardinality(Holders(c))
    BY DEF UsageExact
  <1>2. Cardinality(Holders(c)) \in Nat
    BY HoldersFinite, FS_CardinalityType
  <1>3. Cardinality(Holders(c)) = 0 <=> Holders(c) = {}
    BY HoldersFinite, FS_EmptySet
  <1> QED BY <1>1, <1>2, <1>3

\* The streams on a connection change only when one joins or releases it.
LEMMA JoinHolders ==
    ASSUME PoolTypeOK, StreamsInv, NEW s \in Streams, Join(s)
    PROVE  /\ client[s] \in Conns
           /\ s \notin Holders(client[s])
           /\ \A c \in Conns : Holders(c)' =
                IF c = client[s] THEN Holders(c) \union {s} ELSE Holders(c)
  BY DEF PoolTypeOK, StreamsInv, Join, Holders

\* The stream gives its connection back: its first release, or a dial that failed.
GivesBack(s) == DialModeFails(s) \/ (Release(s) /\ releases[s] = 0)

\* It then takes one from the count, and leaves the pool alone.
LEMMA GivesBackStep ==
    ASSUME NEW s \in Streams, GivesBack(s)
    PROVE  AddUsage(client[s], -1) /\ UNCHANGED poolVars
  BY ZenonT(60) DEF GivesBack, DialModeFails, Release

\* It is then no longer among the holders of its connection,
LEMMA ReleaseHolders ==
    ASSUME PoolTypeOK, StreamsInv, NEW s \in Streams, GivesBack(s)
    PROVE  /\ client[s] \in Conns
           /\ s \in Holders(client[s])
           /\ \A c \in Conns : Holders(c)' =
                IF c = client[s] THEN Holders(c) \ {s} ELSE Holders(c)
<1>1. CASE DialModeFails(s)
  BY <1>1 DEF PoolTypeOK, StreamsInv, DialModeFails, Holders
<1>2. CASE Release(s) /\ releases[s] = 0
  BY <1>2 DEF PoolTypeOK, StreamsInv, Release, Holders
<1> QED BY <1>1, <1>2 DEF GivesBack

\* The beginning of a cleanup, and later calls of release, leave them alone.
LEMMA HoldersStay ==
    ASSUME PoolTypeOK, StreamsInv, NEW s \in Streams, Leave(s), ~GivesBack(s)
    PROVE  /\ \A c \in Conns : Holders(c)' = Holders(c)
           /\ UNCHANGED <<openUsage, retired, connClosed, clients, closing, opened>>
<1>1. CASE End(s)
  BY <1>1 DEF PoolTypeOK, StreamsInv, End, Holders
<1>2. CASE Release(s) /\ releases[s] # 0
  BY <1>2 DEF PoolTypeOK, StreamsInv, Release, Holders
<1> QED BY <1>1, <1>2 DEF Leave, GivesBack

\* A stream that joins adds one to the count of its connection, one that
\* releases it takes one away: the count stays exact.
LEMMA JoinCounts ==
    ASSUME PoolTypeOK, StreamsInv, UsageExact, NEW s \in Streams, Join(s)
    PROVE  UsageExact'
  <1> DEFINE d == client[s]
  <1>1. \A c \in Conns : openUsage'[c] = IF c = d THEN openUsage[c] + 1 ELSE openUsage[c]
    BY JoinHolders DEF Join, AddUsage, PoolTypeOK
  <1>2. Cardinality(Holders(d) \union {s}) = Cardinality(Holders(d)) + 1
    BY ZenonT(60), JoinHolders, HoldersFinite, FS_AddElement
  <1> QED BY SMTT(60), <1>1, <1>2, JoinHolders DEF UsageExact

\* and so the count stays exact.
LEMMA ReleaseCounts ==
    ASSUME PoolTypeOK, StreamsInv, UsageExact, NEW s \in Streams, GivesBack(s)
    PROVE  UsageExact'
  <1> DEFINE d == client[s]
  <1>1. \A c \in Conns : openUsage'[c] = IF c = d THEN openUsage[c] - 1 ELSE openUsage[c]
    <2>1. openUsage' = [openUsage EXCEPT ![d] = @ + -1]
      BY GivesBackStep, Zenon DEF AddUsage
    <2>2. openUsage \in [Conns -> Int] /\ d \in Conns
      BY ReleaseHolders DEF PoolTypeOK
    <2> QED BY <2>1, <2>2
  <1>2. Cardinality(Holders(d) \ {s}) = Cardinality(Holders(d)) - 1
    BY ReleaseHolders, HoldersFinite, FS_RemoveElement
  <1> QED BY <1>1, <1>2, ReleaseHolders DEF UsageExact

\* A step that leaves the streams on every connection, the counts and the
\* places of the connections alone keeps the invariant.
LEMMA PoolFrame ==
    ASSUME PoolInv, \A c \in Conns : Holders(c)' = Holders(c),
           UNCHANGED <<openUsage, retired, connClosed, clients, closing, opened>>
    PROVE  PoolInv'
  BY DEF PoolInv, UsageExact, RetiredIsTornDown, NoConnectionLost

\* close() on connections that the step takes out of the pool or out of Close:
\* the ones without a stream are torn down, and no other.
LEMMA CloseClientsInv ==
    ASSUME PoolTypeOK, PoolInv, \A c \in Conns : Holders(c)' = Holders(c),
           NEW D \in SUBSET Conns, CloseClients(D), D \subseteq opened,
           opened' = opened,
           (clients \union closing)' = (clients \union closing) \ D,
           clients' \intersect closing' = {}
    PROVE  /\ PoolInv'
           /\ \A c \in Conns : connClosed'[c] /\ ~connClosed[c] => Holders(c)' = {}
  <1>1. UsageExact'
    BY DEF PoolInv, UsageExact, CloseClients
  <1>2. \A c \in Conns :
          /\ retired'[c] <=> retired[c] \/ c \in D
          /\ connClosed'[c] <=> connClosed[c] \/ (c \in D /\ openUsage[c] <= 0)
    BY ZenonT(60) DEF CloseClients, CloseConns, PoolTypeOK
  <1>3. \A c \in Conns : openUsage[c] <= 0 <=> Holders(c) = {}
    BY UsageZero DEF PoolInv
  <1>4. RetiredIsTornDown'
    BY <1>2, <1>3 DEF PoolInv, RetiredIsTornDown
  <1>5. NoConnectionLost'
    BY <1>2 DEF PoolInv, NoConnectionLost, PoolTypeOK
  <1>6. \A c \in Conns : retired'[c] => c \in opened'
    BY <1>2, Zenon DEF PoolInv
  <1> QED BY <1>1, <1>2, <1>3, <1>4, <1>5, <1>6 DEF PoolInv

\* The step of every action keeps PoolInv, and tears down no connection that a
\* counted stream is on.
LEMMA PoolStep ==
    ASSUME PoolTypeOK, StreamsInv, PoolInv, [PoolNext]_xmuxVars
    PROVE  /\ PoolInv'
           /\ \A c \in Conns : connClosed'[c] /\ ~connClosed[c] => Holders(c)' = {}
<1> DEFINE Goal == /\ PoolInv'
                   /\ \A c \in Conns :
                        connClosed'[c] /\ ~connClosed[c] => Holders(c)' = {}
<1>1. ASSUME \A c \in Conns : Holders(c)' = Holders(c),
             UNCHANGED <<openUsage, retired, connClosed, clients, closing, opened>>
      PROVE  Goal
  BY <1>1, PoolFrame
<1>2. ASSUME UNCHANGED <<at, client, releases, openUsage, retired, connClosed, clients,
                         closing, opened>>
      PROVE  Goal
  BY SMTT(60), <1>1, <1>2 DEF Holders
<1>3. ASSUME NEW s \in Streams, GetEvict(s)
      PROVE  Goal
  <2> DEFINE E == {c \in clients : EvictCause(c)}
  <2>1. \A c \in Conns : Holders(c)' = Holders(c)
    BY <1>3 DEF GetEvict, Holders, PoolTypeOK
  <2>2. /\ E \in SUBSET Conns /\ E \subseteq opened /\ opened' = opened
        /\ (clients \union closing)' = (clients \union closing) \ E
        /\ clients' \intersect closing' = {}
        /\ CloseClients(E)
    BY <1>3 DEF GetEvict, PoolTypeOK, PoolInv, NoConnectionLost
  <2> QED BY <2>1, <2>2, CloseClientsInv
<1>4. ASSUME NEW s \in Streams, GetNew(s)
      PROVE  Goal
  <2> PICK c \in Conns \ opened : NewClient(c) /\ HandOut(s, c)
    BY <1>4, NewIsFresh
  <2>1. \A e \in Conns : Holders(e)' = Holders(e)
    BY <1>4 DEF GetNew, HandOut, Holders, PoolTypeOK, StreamsInv
  <2>2. UNCHANGED <<openUsage, retired, connClosed, closing>>
    BY <1>4 DEF GetNew
  <2>3. NoConnectionLost'
    BY <2>2 DEF NewClient, PoolInv, NoConnectionLost, PoolTypeOK
  <2> QED BY <2>1, <2>2, <2>3, Zenon DEF PoolInv, UsageExact, RetiredIsTornDown, NewClient
<1>5. ASSUME NEW s \in Streams, GetReuse(s) \/ GetWait(s)
      PROVE  Goal
  <2>1. \A c \in Conns : Holders(c)' = Holders(c)
    BY SMTT(60), <1>5 DEF GetReuse, GetWait, HandOut, Candidates, Holders, PoolTypeOK, StreamsInv
  <2> QED BY SMTT(60), <1>1, <1>5, <2>1 DEF GetReuse, GetWait
<1>6. ASSUME NEW s \in Streams, Wake(s) \/ CancelWait(s)
      PROVE  Goal
  <2>1. \A c \in Conns : Holders(c)' = Holders(c)
    BY <1>6 DEF Wake, CancelWait, Holders, PoolTypeOK
  <2> QED BY SMTT(60), <1>1, <1>6, <2>1 DEF Wake, CancelWait
<1>7. ASSUME NEW s \in Streams, Join(s)
      PROVE  Goal
  <2>1. UsageExact'
    BY SMTT(60), <1>7, JoinCounts DEF PoolInv
  <2>2. UNCHANGED <<retired, clients, closing, opened, connClosed>>
    <3> PICK d \in Conns : d = client[s]
      BY <1>7, JoinHolders
    <3>1. UNCHANGED <<retired, clients, closing, opened>>
      BY <1>7 DEF Join, AddUsage
    <3>2. openUsage[d] \in Nat
      BY HoldersFinite, FS_CardinalityType DEF PoolInv, UsageExact
    <3>3. ~(openUsage[d] + 1 <= 0)
      BY <3>2
    <3>4. connClosed' = [c \in Conns |-> connClosed[c] \/ c \in {}]
      BY <1>7, <3>3, Zenon DEF Join, AddUsage, CloseConns
    <3>5. connClosed' = connClosed
      BY <3>4 DEF PoolTypeOK
    <3> QED BY <3>1, <3>5
  <2>3. RetiredIsTornDown'
    BY <1>7, <2>2, JoinHolders DEF RetiredIsTornDown, PoolInv
  <2> QED BY <2>1, <2>2, <2>3 DEF PoolInv, NoConnectionLost
<1>8. ASSUME NEW s \in Streams, GivesBack(s)
      PROVE  Goal
  <2> PICK d \in Conns : d = client[s]
    BY <1>8, ReleaseHolders
  <2>1. UsageExact'
    BY <1>8, ReleaseCounts DEF PoolInv
  <2>2. UNCHANGED <<retired, clients, closing, opened>>
    BY <1>8, GivesBackStep, Zenon DEF AddUsage
  <2>3. \A c \in Conns :
          connClosed'[c] <=> connClosed[c] \/ (c = d /\ retired[d] /\ openUsage'[d] <= 0)
    <3>1. openUsage'[d] = openUsage[d] + -1
      BY <1>8, GivesBackStep, Zenon DEF AddUsage, PoolTypeOK
    <3>2. connClosed' = [c \in Conns |-> connClosed[c]
                           \/ c \in IF retired[d] /\ openUsage[d] + -1 <= 0 THEN {d} ELSE {}]
      BY <1>8, GivesBackStep DEF AddUsage, CloseConns
    <3>3. CASE retired[d] /\ openUsage[d] + -1 <= 0
      BY <3>1, <3>2, <3>3, Zenon
    <3>4. CASE ~(retired[d] /\ openUsage[d] + -1 <= 0)
      BY <3>1, <3>2, <3>4, Zenon
    <3> QED BY <3>3, <3>4, Zenon
  <2>4. openUsage'[d] <= 0 <=> Holders(d)' = {}
    <3>1. openUsage'[d] = Cardinality(Holders(d)')
      BY <2>1 DEF UsageExact
    <3>2. IsFiniteSet(Holders(d)')
      BY SMTT(60), <1>8, ReleaseHolders, HoldersFinite, FS_RemoveElement
    <3> QED BY SMTT(60), <3>1, <3>2, FS_EmptySet, FS_CardinalityType
  <2>5. RetiredIsTornDown'
    BY SMTT(60), <1>8, <2>2, <2>3, <2>4, ReleaseHolders DEF RetiredIsTornDown, PoolInv
  <2> QED BY <1>8, <2>1, <2>2, <2>3, <2>4, <2>5, ReleaseHolders
          DEF PoolInv, NoConnectionLost
<1>l. ASSUME NEW s \in Streams, Leave(s)
      PROVE  Goal
  BY <1>1, <1>8, <1>l, HoldersStay
<1>9. ASSUME NEW s \in Streams, Carry(s)
      PROVE  Goal
  <2> DEFINE Same == UNCHANGED <<at, client, releases, openUsage, retired, connClosed, clients,
                                 closing, opened>>
  <2>1. CASE BeginRequest(s) \/ EndRequest(s)
    <3>1. Same
      BY <2>1 DEF BeginRequest, EndRequest
    <3> QED BY <1>2, <3>1
  <2>2. CASE FailRequest(s) \/ ReadFails(s)
    <3>1. Same
      BY <2>2, Zenon DEF FailRequest, ReadFails
    <3> QED BY <1>2, <3>1
  <2>3. CASE StoreFailing(s) \/ NoteBreakerTrip(s)
    <3>1. Same
      BY <2>3 DEF StoreFailing, NoteBreakerTrip
    <3> QED BY <1>2, <3>1
  <2>4. CASE NoteSuccess(s) \/ ResetBackoff(s)
    <3>1. Same
      BY <2>4 DEF NoteSuccess, ResetBackoff
    <3> QED BY <1>2, <3>1
  <2> QED BY <1>9, <2>1, <2>2, <2>3, <2>4 DEF Carry
<1>10. CASE CloseTake
  <2>1. \A c \in Conns : Holders(c)' = Holders(c)
    BY ZenonT(60), <1>10 DEF CloseTake, Holders
  <2>2. NoConnectionLost'
    BY <1>10 DEF CloseTake, PoolInv, NoConnectionLost
  <2> QED BY ZenonT(60), <1>10, <2>1, <2>2 DEF CloseTake, PoolInv, UsageExact, RetiredIsTornDown
<1>11. ASSUME NEW c \in Conns, CloseOne(c)
       PROVE  Goal
  <2>1. \A e \in Conns : Holders(e)' = Holders(e)
    BY SMTT(60), <1>11 DEF CloseOne, Holders
  <2>2. /\ {c} \in SUBSET Conns /\ {c} \subseteq opened /\ opened' = opened
        /\ (clients \union closing)' = (clients \union closing) \ {c}
        /\ clients' \intersect closing' = {}
        /\ CloseClients({c})
    BY <1>11 DEF CloseOne, PoolTypeOK, PoolInv, NoConnectionLost
  <2> QED BY <2>1, <2>2, CloseClientsInv
<1>12. CASE PoolTick
  BY <1>2, <1>12 DEF PoolTick
<1>13. CASE UNCHANGED xmuxVars
  BY <1>2, <1>13 DEF xmuxVars
<1>14. QED
  BY <1>3, <1>4, <1>5, <1>6, <1>7, <1>l, <1>9, <1>10, <1>11, <1>12, <1>13, Zenon
     DEF PoolNext, Dial

\* The empty pool satisfies the invariant.
LEMMA PoolInvInit == PoolInit => PoolInv
<1> SUFFICES ASSUME PoolInit PROVE PoolInv
  OBVIOUS
<1>1. \A c \in Conns : Holders(c) = {}
  BY DEF PoolInit, Holders
<1>2. UsageExact
  BY SMTT(60), <1>1, FS_EmptySet DEF PoolInit, UsageExact
<1>3. \A c \in Conns : ~retired[c] /\ ~connClosed[c]
  BY DEF PoolInit
<1> QED BY <1>2, <1>3 DEF PoolInit, PoolInv, RetiredIsTornDown, NoConnectionLost

\* In every reachable state openUsage is exact, a retired connection without a
\* stream is torn down, and no connection is lost.
THEOREM PoolCorrect == PoolSpec => [](UsageExact /\ RetiredIsTornDown /\ NoConnectionLost)
<1>1. PoolInit => PoolInv
  BY PoolInvInit
<1>2. PoolTypeOK /\ StreamsInv /\ PoolInv /\ [PoolNext]_xmuxVars => PoolInv'
  BY PoolStep
<1>3. PoolInv => UsageExact /\ RetiredIsTornDown /\ NoConnectionLost
  BY DEF PoolInv
<1>4. QED
  BY <1>1, <1>2, <1>3, TypeCorrect, PTL DEF PoolSpec

\* Teardown is neither early nor forgotten (close, addOpenUsage).
THEOREM RetiredAreTornDown == PoolSpec => []RetiredIsTornDown
  BY PoolCorrect, PTL

\* Neither get nor Close loses a connection, or keeps one it has given up.
THEOREM PoolKeepsConnections == PoolSpec => []NoConnectionLost
  BY PoolCorrect, PTL

\* No step tears a connection down while a counted stream is on it.
THEOREM TeardownSafe == PoolSpec => TeardownSparesHolders
<1>1. PoolInit => PoolInv
  BY PoolInvInit
<1>2. PoolTypeOK /\ StreamsInv /\ PoolInv /\ [PoolNext]_xmuxVars => PoolInv'
  BY PoolStep
<1>3. PoolTypeOK /\ StreamsInv /\ PoolInv /\ [PoolNext]_xmuxVars =>
        [\A c \in Conns : connClosed'[c] /\ ~connClosed[c] => Holders(c)' = {}]_xmuxVars
  BY PoolStep
<1>4. QED
  BY <1>1, <1>2, <1>3, TypeCorrect, PTL DEF PoolSpec, TeardownSparesHolders

-----------------------------------------------------------------------------
\* max_connections: normalizeXmux lets only one of the two pool-wide limits be
\* set, so the rolls are never both positive, and get adds a connection to a
\* non-empty pool of a limited size only below the limit.
SizeInv ==
    /\ concurrency = 0 \/ connections = 0
    /\ PoolBound

\* The pool never holds more than max_connections connections.
THEOREM PoolBounded == PoolSpec => []PoolBound
<1>1. PoolInit => SizeInv
  <2>1. PoolInit => (connections > 0 => Cardinality(clients) <= connections)
    BY RangesAssumption, FS_EmptySet DEF PoolInit
  <2>2. PoolInit => concurrency = 0 \/ connections = 0
    BY RangesAssumption DEF PoolInit
  <2> QED BY <2>1, <2>2 DEF SizeInv, PoolBound
<1>2. PoolTypeOK /\ SizeInv /\ [PoolNext]_xmuxVars => SizeInv'
  <2> SUFFICES ASSUME PoolTypeOK, SizeInv, [PoolNext]_xmuxVars PROVE SizeInv'
    OBVIOUS
  <2>0. IsFiniteSet(clients)
    BY SMTT(60), SetsAssumption, FS_Subset DEF PoolTypeOK
  <2>1. UNCHANGED <<concurrency, connections>>
    BY ZenonT(60), LeaveFrame DEF PoolNext, xmuxVars, Dial, Carry, GetEvict, GetNew, GetReuse,
       GetWait, Wake, CancelWait, Join, BeginRequest, EndRequest, FailRequest, ReadFails,
       StoreFailing, NoteBreakerTrip, NoteSuccess, ResetBackoff, CloseTake,
       CloseOne, PoolTick
  <2>2. CASE clients' \subseteq clients
    <3>1. Cardinality(clients') <= Cardinality(clients)
          /\ Cardinality(clients') \in Nat /\ Cardinality(clients) \in Nat
      BY <2>0, <2>2, FS_Subset, FS_CardinalityType
    <3> QED BY <2>1, <3>1 DEF SizeInv, PoolBound, PoolTypeOK
  <2>3. ASSUME NEW s \in Streams, GetNew(s) PROVE SizeInv'
    <3> PICK c \in Conns \ opened : NewClient(c)
      BY <2>3, NewIsFresh
    <3>1. Cardinality(clients') = Cardinality(clients) + 1 /\ Cardinality(clients) \in Nat
      BY ZenonT(60), <2>0, FS_AddElement, FS_CardinalityType DEF NewClient, PoolTypeOK
    <3>2. connections > 0 => clients = {} \/ Cardinality(clients) < connections
      BY <2>3 DEF GetNew, BelowConnections, Candidates, SizeInv, PoolTypeOK
    <3>3. clients = {} => Cardinality(clients) = 0
      BY FS_EmptySet
    <3> QED BY <2>1, <3>1, <3>2, <3>3 DEF SizeInv, PoolBound, PoolTypeOK
  <2>4. (\E s \in Streams : GetNew(s)) \/ clients' \subseteq clients
    BY ZenonT(60), LeaveFrame DEF PoolNext, xmuxVars, Dial, Carry, GetEvict, GetReuse, GetWait, Wake,
       CancelWait, Join, BeginRequest, EndRequest, FailRequest, ReadFails,
       StoreFailing, NoteBreakerTrip, NoteSuccess, ResetBackoff, CloseTake,
       CloseOne, PoolTick
  <2> QED BY <2>2, <2>3, <2>4
<1>3. SizeInv => PoolBound
  BY DEF SizeInv
<1>4. QED
  BY <1>1, <1>2, <1>3, TypeCorrect, PTL DEF PoolSpec

-----------------------------------------------------------------------------
\* c_max_reuse_times: what is left of the rolled number and what was handed out
\* add up to it, and between the two halves of get no connection of the pool has
\* nothing left.
ReuseInv ==
    /\ \A c \in opened : leftUsage[c] # -1 => handed[c] + leftUsage[c] \in CMaxReuseTimes
    /\ \A c \in Conns \ opened : handed[c] = 0
    /\ access # NoStream => \A c \in clients : leftUsage[c] # 0

\* What is handed out once more is one less that is left.
LEMMA SumKept ==
    ASSUME NEW h \in Nat, NEW l \in Int, NEW h2, NEW l2, l > 0 \/ l = -1,
           l2 = IF l > 0 THEN l - 1 ELSE l, h2 = h + 1
    PROVE  l2 = -1 \/ (l # -1 /\ h2 + l2 = h + l)
  OBVIOUS

\* No connection is handed out more often than c_max_reuse_times allows.
THEOREM ReuseBounded == PoolSpec => []ReuseBound
<1> USE SetsAssumption, RangesAssumption
<1>1. PoolInit => ReuseInv
  BY DEF PoolInit, ReuseInv
<1>2. PoolTypeOK /\ ReuseInv /\ [PoolNext]_xmuxVars => ReuseInv'
  <2> SUFFICES ASSUME PoolTypeOK, ReuseInv, [PoolNext]_xmuxVars PROVE ReuseInv'
    OBVIOUS
  <2>1. ASSUME UNCHANGED <<leftUsage, handed, opened>>,
               access' = NoStream \/ UNCHANGED <<access, clients>>
                 \/ (clients' \subseteq clients /\ \A c \in clients' : leftUsage[c] # 0)
        PROVE  ReuseInv'
    BY SMTT(60), <2>1 DEF ReuseInv
  <2>2. ASSUME NEW s \in Streams, GetNew(s) PROVE ReuseInv'
    <3> PICK c \in Conns \ opened : NewClient(c) /\ HandOut(s, c)
      BY <2>2, NewIsFresh
    <3> PICK x \in CMaxReuseTimes :
          leftUsage' = [leftUsage EXCEPT ![c] = IF x > 0 THEN x - 1 ELSE -1]
      BY ZenonT(60) DEF NewClient
    <3>1. x \in Nat
      OBVIOUS
    <3>2. leftUsage'[c] = (IF x > 0 THEN x - 1 ELSE -1) /\ handed'[c] = 1
      BY <3>1 DEF HandOut, ReuseInv, PoolTypeOK
    <3>3. \A d \in Conns : d # c => leftUsage'[d] = leftUsage[d] /\ handed'[d] = handed[d]
      BY DEF HandOut, PoolTypeOK
    <3>4. opened' = opened \union {c} /\ access' = NoStream
      BY DEF NewClient, HandOut
    <3>5. leftUsage'[c] # -1 => handed'[c] + leftUsage'[c] = x
      BY <3>1, <3>2
    <3>6. \A d \in opened' : leftUsage'[d] # -1 => handed'[d] + leftUsage'[d] \in CMaxReuseTimes
      BY <3>3, <3>4, <3>5, Zenon DEF ReuseInv, PoolTypeOK
    <3>7. \A d \in Conns \ opened' : handed'[d] = 0
      BY <3>3, <3>4 DEF ReuseInv
    <3> QED BY <3>4, <3>6, <3>7 DEF ReuseInv
  <2>3. ASSUME NEW s \in Streams, GetReuse(s) PROVE ReuseInv'
    <3> PICK c \in Candidates :
          /\ HandOut(s, c)
          /\ leftUsage' = [leftUsage EXCEPT ![c] = IF @ > 0 THEN @ - 1 ELSE @]
      BY ZenonT(60), <2>3 DEF GetReuse
    <3>1. c \in clients /\ c \in opened /\ c \in Conns
      BY DEF Candidates, PoolTypeOK
    <3>2. leftUsage[c] > 0 \/ leftUsage[c] = -1
      <4>1. access = s /\ access # NoStream
        BY <2>3 DEF GetReuse
      <4>2. leftUsage[c] # 0
        BY ZenonT(60), <3>1, <4>1 DEF ReuseInv
      <4>3. leftUsage[c] \in Nat \union {-1}
        BY <3>1 DEF PoolTypeOK
      <4> QED BY <4>2, <4>3
    <3>3. /\ leftUsage'[c] = IF leftUsage[c] > 0 THEN leftUsage[c] - 1 ELSE leftUsage[c]
          /\ handed'[c] = handed[c] + 1
      BY <3>1, <3>2 DEF HandOut, PoolTypeOK
    <3>4. \A d \in Conns : d # c => leftUsage'[d] = leftUsage[d] /\ handed'[d] = handed[d]
      BY <3>1 DEF HandOut, PoolTypeOK
    <3>5. leftUsage[c] \in Int /\ handed[c] \in Nat
      BY SMTT(60), <3>1 DEF PoolTypeOK
    <3>6. \/ leftUsage'[c] = -1
          \/ leftUsage[c] # -1 /\ handed'[c] + leftUsage'[c] = handed[c] + leftUsage[c]
      <4>0. PICK h, l, h2, l2 : /\ h = handed[c] /\ l = leftUsage[c]
                                /\ h2 = handed'[c] /\ l2 = leftUsage'[c]
        OBVIOUS
      <4>1. /\ h \in Nat /\ l \in Int /\ (l > 0 \/ l = -1)
            /\ l2 = (IF l > 0 THEN l - 1 ELSE l) /\ h2 = h + 1
        BY <3>2, <3>3, <3>5, <4>0
      <4>2. l2 = -1 \/ (l # -1 /\ h2 + l2 = h + l)
        BY <4>1, SumKept
      <4> QED BY <4>0, <4>2, Zenon
    <3>7. opened' = opened /\ access' = NoStream
      BY SMTT(60), <2>3 DEF GetReuse, HandOut
    <3> QED BY <3>1, <3>4, <3>6, <3>7, Zenon DEF ReuseInv, PoolTypeOK
  <2>4. ASSUME NEW s \in Streams, GetEvict(s) PROVE ReuseInv'
    <3>1. UNCHANGED <<leftUsage, handed, opened>>
      BY <2>4 DEF GetEvict
    <3>2. clients' = clients \ {c \in clients : EvictCause(c)}
      BY <2>4 DEF GetEvict
    <3>3. \A c \in clients' : leftUsage[c] # 0
      BY <3>2 DEF EvictCause
    <3> QED BY <2>1, <3>1, <3>2, <3>3
  <2>5. ASSUME NEW s \in Streams, GetWait(s) \/ Wake(s) \/ CancelWait(s)
                                    \/ Join(s) \/ Leave(s)
        PROVE  ReuseInv'
    <3>1. UNCHANGED <<leftUsage, handed, opened, clients>>
      BY <2>5, LeaveFrame, Zenon DEF GetWait, Wake, CancelWait, Join
    <3>2. access' = NoStream \/ UNCHANGED access
      BY <2>5, LeaveFrame, Zenon DEF GetWait, Wake, CancelWait, Join
    <3> QED BY <2>1, <3>1, <3>2
  <2>6. ASSUME NEW s \in Streams, Carry(s) PROVE ReuseInv'
    BY ZenonT(60), <2>1, <2>6 DEF Carry, BeginRequest, EndRequest, FailRequest, ReadFails,
       StoreFailing, NoteBreakerTrip, NoteSuccess, ResetBackoff
  <2>7. CASE CloseTake \/ PoolTick \/ (\E c \in Conns : CloseOne(c)) \/ UNCHANGED xmuxVars
    BY ZenonT(60), <2>1, <2>7 DEF CloseTake, CloseOne, PoolTick, xmuxVars
  <2> QED BY <2>2, <2>3, <2>4, <2>5, <2>6, <2>7 DEF PoolNext, Dial
<1>3. PoolTypeOK /\ ReuseInv => ReuseBound
  <2> SUFFICES ASSUME PoolTypeOK, ReuseInv, NEW c \in opened, leftUsage[c] # -1
               PROVE  handed[c] <= handed[c] + leftUsage[c]
                      /\ handed[c] + leftUsage[c] \in CMaxReuseTimes
    BY ZenonT(60) DEF ReuseBound
  <2> QED BY DEF ReuseInv, PoolTypeOK
<1>4. QED
  BY <1>1, <1>2, <1>3, TypeCorrect, PTL DEF PoolSpec

-----------------------------------------------------------------------------
\* The back-off window never reaches further than the cap from now; a dial that
\* sleeps until the end of one window sleeps no longer than that either.
WindowInv == blockedUntil <= clock + BackoffCap /\ WaitBounded

\* A waiting dial's timer is at most xmuxBackoffCap away, at all times.
THEOREM WaitIsBounded == PoolSpec => []WaitBounded
<1> USE BreakerAssumption
<1>1. PoolInit => WindowInv
  BY DEF PoolInit, WindowInv, WaitBounded
<1>2. PoolTypeOK /\ WindowInv /\ [PoolNext]_xmuxVars => WindowInv'
  <2> SUFFICES ASSUME PoolTypeOK, WindowInv, [PoolNext]_xmuxVars PROVE WindowInv'
    OBVIOUS
  <2>0. blockedUntil <= clock + BackoffCap /\ blockedUntil \in Nat /\ clock \in Nat
    BY SMTT(60) DEF WindowInv, PoolTypeOK
  <2>1. ASSUME blockedUntil' = blockedUntil, wakeAt' = wakeAt,
               clock' = clock \/ clock' = clock + 1,
               \A s \in Streams : at'[s] = "waiting" => at[s] = "waiting"
        PROVE  WindowInv'
    <3>1. blockedUntil' <= clock' + BackoffCap
      BY SMTT(60), <2>0, <2>1
    <3>2. ASSUME NEW s \in Streams, at'[s] = "waiting"
          PROVE  wakeAt'[s] <= clock' + BackoffCap
      <4>1. wakeAt[s] <= clock + BackoffCap /\ wakeAt[s] \in Nat
        BY SMTT(60), <2>1, <3>2 DEF WindowInv, WaitBounded, PoolTypeOK
      <4> QED BY SMTT(60), <2>1, <4>1 DEF PoolTypeOK
    <3> QED BY <3>1, <3>2 DEF WindowInv, WaitBounded
  <2>2. ASSUME NEW s \in Streams, GetWait(s) PROVE WindowInv'
    <3>1. /\ wakeAt' = [wakeAt EXCEPT ![s] = blockedUntil]
          /\ at' = [at EXCEPT ![s] = "waiting"]
          /\ clock' = clock /\ blockedUntil' = blockedUntil
      BY <2>2 DEF GetWait, managerVars
    <3>2. ASSUME NEW t \in Streams, at'[t] = "waiting"
          PROVE  wakeAt'[t] <= clock' + BackoffCap
      <4>1. CASE t = s
        BY <2>0, <3>1, <4>1 DEF PoolTypeOK
      <4>2. CASE t # s
        BY <3>1, <3>2, <4>2 DEF WindowInv, WaitBounded, PoolTypeOK
      <4> QED BY <4>1, <4>2
    <3> QED BY <2>0, <3>1, <3>2 DEF WindowInv, WaitBounded
  <2>3. ASSUME NEW s \in Streams, NoteBreakerTrip(s) PROVE WindowInv'
    <3>1. NextDelay \in 0..BackoffCap
      BY SMTT(60) DEF NextDelay, PoolTypeOK
    <3>2. blockedUntil' = clock + NextDelay /\ UNCHANGED <<at, wakeAt, clock>>
      BY <2>3 DEF NoteBreakerTrip
    <3>3. blockedUntil' <= clock' + BackoffCap
      BY <2>0, <3>1, <3>2
    <3>4. WaitBounded'
      BY <3>2 DEF WindowInv, WaitBounded
    <3> QED BY <3>3, <3>4 DEF WindowInv
  <2>4. ASSUME NEW s \in Streams, ResetBackoff(s) PROVE WindowInv'
    <3>1. blockedUntil' \in {0, blockedUntil} /\ UNCHANGED <<at, wakeAt, clock>>
      BY <2>4 DEF ResetBackoff
    <3>2. blockedUntil' <= clock' + BackoffCap
      BY <2>0, <3>1
    <3>3. WaitBounded'
      BY <3>1 DEF WindowInv, WaitBounded
    <3> QED BY <3>2, <3>3 DEF WindowInv
  <2>5. ASSUME NEW s \in Streams,
               GetEvict(s) \/ GetNew(s) \/ GetReuse(s) \/ Wake(s) \/ CancelWait(s)
                 \/ Join(s) \/ Leave(s)
        PROVE  WindowInv'
    <3>1. UNCHANGED <<blockedUntil, wakeAt, clock>>
      <4>0. CASE GetEvict(s)
        BY <4>0 DEF GetEvict
      <4>n. CASE GetNew(s)
        BY <4>n DEF GetNew, HandOut
      <4>1. CASE GetReuse(s)
        BY <4>1 DEF GetReuse, HandOut
      <4>2. CASE Wake(s) \/ CancelWait(s) \/ Join(s) \/ Leave(s)
        BY <4>2, LeaveFrame, Zenon DEF Wake, CancelWait, Join
      <4> QED BY <2>5, <4>0, <4>n, <4>1, <4>2
    <3>2. \A t \in Streams : at'[t] = "waiting" => at[t] = "waiting"
      <4>1. CASE GetEvict(s) \/ Wake(s) \/ CancelWait(s)
        BY <4>1, Zenon DEF GetEvict, Wake, CancelWait, PoolTypeOK
      <4>2. CASE GetNew(s) \/ GetReuse(s)
        BY <4>2, Zenon DEF GetNew, GetReuse, HandOut, PoolTypeOK
      <4>3. CASE Join(s)
        BY <4>3, Zenon DEF Join, PoolTypeOK
      <4>4. CASE Leave(s)
        BY <4>4, LeaveFrame DEF PoolTypeOK
      <4> QED BY <2>5, <4>1, <4>2, <4>3, <4>4, Zenon
    <3> QED BY <2>1, <3>1, <3>2
  <2>6. ASSUME NEW s \in Streams,
               BeginRequest(s) \/ EndRequest(s) \/ FailRequest(s) \/ ReadFails(s)
                 \/ StoreFailing(s) \/ NoteSuccess(s)
        PROVE  WindowInv'
    BY <2>1, <2>6, Zenon DEF BeginRequest, EndRequest, FailRequest, ReadFails,
       StoreFailing, NoteSuccess, PoolTypeOK
  <2>7. CASE CloseTake \/ PoolTick \/ (\E c \in Conns : CloseOne(c)) \/ UNCHANGED xmuxVars
    <3>1. CASE CloseTake \/ (\E c \in Conns : CloseOne(c)) \/ UNCHANGED xmuxVars
      <4>1. UNCHANGED <<blockedUntil, wakeAt, clock, at>>
        BY ZenonT(60), <3>1 DEF CloseTake, CloseOne, xmuxVars, managerVars, dialVars
      <4> QED BY SMTT(60), <2>1, <4>1
    <3>2. CASE PoolTick
      <4>1. clock' = clock + 1 /\ UNCHANGED <<blockedUntil, wakeAt, at>>
        BY <3>2 DEF PoolTick
      <4> QED BY <2>0, <2>1, <4>1
    <3> QED BY <2>7, <3>1, <3>2
  <2> QED BY <2>2, <2>3, <2>4, <2>5, <2>6, <2>7 DEF PoolNext, Dial, Carry
<1>3. WindowInv => WaitBounded
  BY DEF WindowInv
<1>4. QED
  BY <1>1, <1>2, <1>3, TypeCorrect, PTL DEF PoolSpec
=============================================================================
