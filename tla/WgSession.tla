------------------------------ MODULE WgSession ------------------------------
(***************************************************************************)
(* The sessions of two WireGuard devices that are each other's peer:       *)
(* noise-protocol.go, keypair.go, indextable.go and the callers of them in *)
(* send.go, receive.go, timers.go and peer.go of wireguard-go/device.      *)
(*                                                                         *)
(* A step is what one goroutine does while it holds handshake.mutex or the *)
(* lock of the keypairs.  The network keeps every message: it may deliver  *)
(* one late, twice, in any order or never.  Cryptography is symbolic: a    *)
(* chain key is what was mixed into it, and a message opens for whoever    *)
(* has the same chain.  Time is left out: what a timer or an age decides   *)
(* may happen whenever its other conditions hold.                          *)
(***************************************************************************)
EXTENDS Naturals, Sequences, Functions

CONSTANTS Devices, Workers,   \* two devices; the RoutineHandshake goroutines of each
          Indices, NoIndex,   \* what NewIndexForHandshake draws from; localIndex 0
          MaxEvents           \* bound: ephemeral keys drawn, and ends of the keys

ASSUME SessionAssumption ==
    /\ \E x, y \in Devices : x # y /\ Devices = {x, y}
    /\ NoIndex \notin Indices
    /\ MaxEvents \in Nat

Other(d) == CHOOSE e \in Devices : e # d

VARIABLES
    hs,        \* peer.handshake: state, localIndex, remoteIndex, chainKey
    lastTs,    \* handshake.lastTimestamp
    eph,       \* ephemeral keys drawn so far; the newest is also the time
    table,     \* device.indexTable
    keypairs,  \* peer.keypairs
    worker,    \* the handshake message each RoutineHandshake is working on
    inbound,   \* the keypair of the packet RoutineSequentialReceiver has next
    running,   \* peer.isRunning
    closer,    \* progress of Stop or of ZeroAndFlushAll
    ends,      \* how often the keys were ended
    net,       \* every message that was sent
    derived,   \* history: the keypairs each device has derived
    stale      \* history: devices where what was checked had changed when applied

life == <<running, closer, ends>>

vars == <<hs, lastTs, eph, table, keypairs, worker, inbound, life,
          net, derived, stale>>

\* A chain is <<initiator, its ephemeral>> after an initiation, and has the
\* ephemeral of the responder as well after the response.
NoChain == <<>>

Zeroed == [st |-> "zeroed", li |-> NoIndex, ri |-> NoIndex, chain |-> NoChain]

NoKeypair == [key |-> NoChain, init |-> FALSE, li |-> NoIndex, ri |-> NoIndex]

NoKeypairs == [current |-> NoKeypair, previous |-> NoKeypair, next |-> NoKeypair]

Free == [st |-> "free"]

HandshakeEntry == [st |-> "handshake"]

KeypairEntry(kp) == [st |-> "keypair", kp |-> kp]

Idle == [pc |-> "idle"]

Init ==
    /\ hs = [d \in Devices |-> Zeroed]
    /\ lastTs = [d \in Devices |-> 0]
    /\ eph = [d \in Devices |-> 0]
    /\ table = [d \in Devices |-> [i \in Indices |-> Free]]
    /\ keypairs = [d \in Devices |-> NoKeypairs]
    /\ worker = [d \in Devices |-> [w \in Workers[d] |-> Idle]]
    /\ inbound = [d \in Devices |-> NoKeypair]
    /\ running = [d \in Devices |-> TRUE]
    /\ closer = [d \in Devices |-> "idle"]
    /\ ends = 0 /\ net = {}
    /\ derived = [d \in Devices |-> {}]
    /\ stale = {}

MayGoOn == ends + FoldFunction(+, 0, eph) < MaxEvents                  \* bound

-----------------------------------------------------------------------------
(* indexTable *)

\* Delete of each index; 0 is not in the table.
Delete(t, is) == [i \in Indices |-> IF i \in is THEN Free ELSE t[i]]

\* SwapIndexForKeypair: an index that is not in the table stays out of it.
SwapIndex(t, i, kp) ==
    [j \in Indices |-> IF j = i /\ t[j] # Free THEN KeypairEntry(kp) ELSE t[j]]

\* The old index of the handshake is deleted and a new one drawn.
Reindex(d, i) ==
    /\ Delete(table[d], {hs[d].li})[i] = Free
    /\ table' = [table EXCEPT ![d] = [Delete(@, {hs[d].li}) EXCEPT ![i] = HandshakeEntry]]

-----------------------------------------------------------------------------
(* The handshake *)

\* SendHandshakeInitiation, by a timer or for a packet that has no usable key;
\* the caller may have seen the peer running before Stop.
SendInitiation(d) ==
    /\ MayGoOn
    /\ eph' = [eph EXCEPT ![d] = @ + 1]
    /\ \E i \in Indices :
         /\ Reindex(d, i)
         /\ hs' = [hs EXCEPT ![d] = [@ EXCEPT !.st = "initiationCreated", !.li = i,
                                              !.chain = <<d, eph'[d]>>]]
         /\ net' = net \union {[type |-> "initiation", to |-> Other(d), sender |-> i,
                                chain |-> <<d, eph'[d]>>]}
    /\ UNCHANGED <<lastTs, keypairs, worker, inbound, life, derived, stale>>

Work(d, w, job) == worker' = [worker EXCEPT ![d][w] = job]

\* ConsumeMessageInitiation up to RUnlock: the peer runs, the timestamp is new.
CheckInitiation(d, w, m) ==
    /\ worker[d][w] = Idle /\ running[d]
    /\ m.type = "initiation" /\ m.to = d
    /\ m.chain[2] > lastTs[d]
    /\ Work(d, w, [pc |-> "initiationChecked", msg |-> m])
    /\ UNCHANGED <<hs, lastTs, eph, table, keypairs, inbound, life, net,
                   derived, stale>>

\* Mutant: lastTimestamp is not updated.
ConsumeInitiationForgetful(d, w) ==
    LET m == worker[d][w].msg IN
    /\ worker[d][w].pc = "initiationChecked"
    /\ hs' = [hs EXCEPT ![d] = [@ EXCEPT !.st = "initiationConsumed", !.ri = m.sender,
                                         !.chain = m.chain]]
    /\ Work(d, w, [pc |-> "respond"])
    /\ UNCHANGED <<lastTs, eph, table, keypairs, inbound, life, net, derived, stale>>

\* ConsumeMessageInitiation from Lock on.
ConsumeInitiation(d, w) ==
    LET m == worker[d][w].msg IN
    /\ worker[d][w].pc = "initiationChecked"
    /\ hs' = [hs EXCEPT ![d] = [@ EXCEPT !.st = "initiationConsumed", !.ri = m.sender,
                                         !.chain = m.chain]]
    /\ lastTs' = [lastTs EXCEPT ![d] = IF m.chain[2] > @ THEN m.chain[2] ELSE @]
    /\ stale' = IF m.chain[2] > lastTs[d] THEN stale ELSE stale \union {d}
    /\ Work(d, w, [pc |-> "respond"])
    /\ UNCHANGED <<eph, table, keypairs, inbound, life, net, derived>>

\* createMessageResponse
CreateResponse(d, w) ==
    /\ worker[d][w].pc = "respond"
    /\ hs[d].st = "initiationConsumed" /\ MayGoOn
    /\ eph' = [eph EXCEPT ![d] = @ + 1]
    /\ \E i \in Indices :
         /\ Reindex(d, i)
         /\ hs' = [hs EXCEPT ![d] = [@ EXCEPT !.st = "responseCreated", !.li = i,
                                              !.chain = Append(hs[d].chain, eph'[d])]]
         /\ Work(d, w, [pc |-> "responseCreated",
                        msg |-> [type |-> "response", to |-> Other(d), sender |-> i,
                                 receiver |-> hs[d].ri, chain |-> hs'[d].chain]])
    /\ UNCHANGED <<lastTs, keypairs, inbound, life, net, derived, stale>>

\* ConsumeMessageResponse up to RUnlock: the index is that of a handshake that
\* waits for a response, and the transcript is the same.
CheckResponse(d, w, m) ==
    /\ worker[d][w] = Idle
    /\ m.type = "response" /\ m.to = d /\ m.receiver \in Indices
    /\ table[d][m.receiver] = HandshakeEntry
    /\ hs[d].st = "initiationCreated" /\ hs[d].chain = SubSeq(m.chain, 1, 2)
    /\ Work(d, w, [pc |-> "responseChecked", msg |-> m])
    /\ UNCHANGED <<hs, lastTs, eph, table, keypairs, inbound, life, net,
                   derived, stale>>

\* Mutant: remoteIndex is not taken from the response.
ConsumeResponseNoIndex(d, w) ==
    LET m == worker[d][w].msg IN
    /\ worker[d][w].pc = "responseChecked"
    /\ hs' = [hs EXCEPT ![d] = [@ EXCEPT !.st = "responseConsumed", !.chain = m.chain]]
    /\ stale' = IF hs[d].st = "initiationCreated" /\ hs[d].chain = SubSeq(m.chain, 1, 2)
                THEN stale ELSE stale \union {d}
    /\ Work(d, w, [pc |-> "responseConsumed"])
    /\ UNCHANGED <<lastTs, eph, table, keypairs, inbound, life, net, derived>>

\* ConsumeMessageResponse from Lock on: nothing is checked again.
ConsumeResponse(d, w) ==
    LET m == worker[d][w].msg IN
    /\ worker[d][w].pc = "responseChecked"
    /\ hs' = [hs EXCEPT ![d] = [@ EXCEPT !.st = "responseConsumed", !.ri = m.sender,
                                         !.chain = m.chain]]
    /\ stale' = IF hs[d].st = "initiationCreated" /\ hs[d].chain = SubSeq(m.chain, 1, 2)
                THEN stale ELSE stale \union {d}
    /\ Work(d, w, [pc |-> "responseConsumed"])
    /\ UNCHANGED <<lastTs, eph, table, keypairs, inbound, life, net, derived>>

-----------------------------------------------------------------------------
(* Keypairs *)

\* The keypairs after the initiator has derived kp, and the ones it deletes.
Installed(ks, kp) ==
    [current |-> kp, next |-> NoKeypair,
     previous |-> IF ks.next # NoKeypair THEN ks.next ELSE ks.current]

\* Mutant: the current keypair is deleted though it stays as the previous one.
InstallDeletesCurrent(ks) == {ks.previous.li, ks.current.li}

\* Mutant: with a next keypair, the current one is dropped but not deleted.
InstallDeletesPrevious(ks) == {ks.previous.li}

InstallDeletes(ks) ==
    {ks.previous.li} \union (IF ks.next # NoKeypair THEN {ks.current.li} ELSE {})

\* Mutant: the responder uses the keypair at once.
OfferedAtOnce(ks, kp) == [current |-> kp, previous |-> ks.current, next |-> NoKeypair]

\* The responder keeps it as the next one until the initiator has used it.
Offered(ks, kp) == [ks EXCEPT !.next = kp, !.previous = NoKeypair]

OfferDeletes(ks) == {ks.next.li, ks.previous.li}

\* BeginSymmetricSession; the role is what the handshake says by now.
Begin(d) ==
    LET isInitiator == hs[d].st = "responseConsumed"
        kp == [key |-> hs[d].chain, init |-> isInitiator, li |-> hs[d].li, ri |-> hs[d].ri]
        swapped == SwapIndex(table[d], hs[d].li, kp)
    IN  /\ hs[d].st \in {"responseConsumed", "responseCreated"}
        /\ hs' = [hs EXCEPT ![d] = [@ EXCEPT !.st = "zeroed", !.li = NoIndex,
                                             !.chain = NoChain]]
        /\ IF isInitiator
           THEN /\ keypairs' = [keypairs EXCEPT ![d] = Installed(@, kp)]
                /\ table' = [table EXCEPT ![d] = Delete(swapped, InstallDeletes(keypairs[d]))]
           ELSE /\ keypairs' = [keypairs EXCEPT ![d] = Offered(@, kp)]
                /\ table' = [table EXCEPT ![d] = Delete(swapped, OfferDeletes(keypairs[d]))]
        /\ derived' = [derived EXCEPT ![d] = @ \union {kp}]

\* The rest of SendHandshakeResponse, or of what RoutineHandshake does with a
\* response: the response goes out.  (The keepalive of the initiator is a packet
\* like any other: SendData.)
BeginSession(d, w) ==
    /\ worker[d][w].pc \in {"responseCreated", "responseConsumed"}
    /\ Begin(d)
    /\ net' = IF worker[d][w].pc = "responseCreated" THEN net \union {worker[d][w].msg} ELSE net
    /\ Work(d, w, Idle)
    /\ UNCHANGED <<lastTs, eph, inbound, life, stale>>

\* createMessageResponse and BeginSymmetricSession fail if another goroutine has
\* moved the handshake on.
WorkerFails(d, w) ==
    /\ \/ worker[d][w].pc = "respond" /\ hs[d].st # "initiationConsumed"
       \/ /\ worker[d][w].pc \in {"responseCreated", "responseConsumed"}
          /\ hs[d].st \notin {"responseConsumed", "responseCreated"}
    /\ Work(d, w, Idle)
    /\ UNCHANGED <<hs, lastTs, eph, table, keypairs, inbound, life, net,
                   derived, stale>>

\* A packet is sent under the current keypair.
SendData(d) ==
    LET kp == keypairs[d].current IN
    /\ kp # NoKeypair
    /\ net' = net \union {[type |-> "data", to |-> Other(d), receiver |-> kp.ri,
                           chain |-> kp.key, init |-> kp.init]}
    /\ UNCHANGED <<hs, lastTs, eph, table, keypairs, worker, inbound, life,
                   derived, stale>>

\* RoutineReceiveIncoming and RoutineDecryption: the keypair of the index opens it.
ReceiveData(d, m) ==
    /\ inbound[d] = NoKeypair /\ running[d]
    /\ m.type = "data" /\ m.to = d /\ m.receiver \in Indices
    /\ table[d][m.receiver].st = "keypair"
    /\ LET kp == table[d][m.receiver].kp IN
         /\ kp.key = m.chain /\ kp.init # m.init
         /\ inbound' = [inbound EXCEPT ![d] = kp]
    /\ UNCHANGED <<hs, lastTs, eph, table, keypairs, worker, life, net, derived,
                   stale>>

\* ReceivedWithKeypair: a packet under the next keypair makes it the current one.
Promote(d) ==
    LET ks == keypairs[d] IN
    /\ inbound[d] # NoKeypair
    /\ inbound' = [inbound EXCEPT ![d] = NoKeypair]
    /\ IF ks.next = inbound[d]
       THEN /\ keypairs' = [keypairs EXCEPT ![d] =
                 [current |-> ks.next, previous |-> ks.current, next |-> NoKeypair]]
            /\ table' = [table EXCEPT ![d] = Delete(@, {ks.previous.li})]
       ELSE UNCHANGED <<keypairs, table>>
    /\ UNCHANGED <<hs, lastTs, eph, worker, life, net, derived, stale>>

-----------------------------------------------------------------------------
(* Start, Stop and the end of the keys *)

ClearHandshake(d) ==
    /\ table' = [table EXCEPT ![d] = Delete(@, {hs[d].li})]
    /\ hs' = [hs EXCEPT ![d] = [@ EXCEPT !.st = "zeroed", !.li = NoIndex, !.chain = NoChain]]

\* Stop, until the routines of the peer are told to end; the handshake workers are
\* the device's and go on.
StopBegin(d) ==
    /\ closer[d] = "idle" /\ running[d] /\ MayGoOn
    /\ running' = [running EXCEPT ![d] = FALSE]
    /\ closer' = [closer EXCEPT ![d] = "stopping"]
    /\ ends' = ends + 1
    /\ UNCHANGED <<hs, lastTs, eph, table, keypairs, worker, inbound, net, derived, stale>>

\* ZeroAndFlushAll, by Stop when the receiver has ended, or by the timer
\* zeroKeyMaterial; first the keypairs.
ZeroKeypairs(d) ==
    /\ \/ closer[d] = "stopping" /\ inbound[d] = NoKeypair /\ UNCHANGED ends
       \/ closer[d] = "idle" /\ running[d] /\ MayGoOn /\ ends' = ends + 1
    /\ keypairs' = [keypairs EXCEPT ![d] = NoKeypairs]
    /\ table' = [table EXCEPT ![d] =
         Delete(@, {keypairs[d].previous.li, keypairs[d].current.li, keypairs[d].next.li})]
    /\ closer' = [closer EXCEPT ![d] = "clear"]
    /\ UNCHANGED <<hs, lastTs, eph, worker, inbound, running, net, derived, stale>>

\* Then, under the other lock, the handshake.
ZeroHandshake(d) ==
    /\ closer[d] = "clear"
    /\ ClearHandshake(d)
    /\ closer' = [closer EXCEPT ![d] = "idle"]
    /\ UNCHANGED <<lastTs, eph, keypairs, worker, inbound, running, ends, net, derived, stale>>

\* ExpireCurrentKeypairs: the handshake is cleared, the keypairs stay.
Expire(d) ==
    /\ MayGoOn
    /\ ClearHandshake(d)
    /\ ends' = ends + 1
    /\ UNCHANGED <<lastTs, eph, keypairs, worker, inbound, running, closer, net, derived, stale>>

Start(d) ==
    /\ closer[d] = "idle" /\ ~running[d]
    /\ running' = [running EXCEPT ![d] = TRUE]
    /\ UNCHANGED <<hs, lastTs, eph, table, keypairs, worker, inbound, closer, ends, net, derived, stale>>

Next ==
    \E d \in Devices :
      \/ SendInitiation(d) \/ SendData(d) \/ Promote(d)
      \/ StopBegin(d) \/ ZeroKeypairs(d) \/ ZeroHandshake(d) \/ Expire(d) \/ Start(d)
      \/ \E m \in net : ReceiveData(d, m)
      \/ \E w \in Workers[d] :
           \/ \E m \in net : CheckInitiation(d, w, m) \/ CheckResponse(d, w, m)
           \/ ConsumeInitiation(d, w) \/ CreateResponse(d, w)
           \/ ConsumeResponse(d, w) \/ BeginSession(d, w) \/ WorkerFails(d, w)

Spec == Init /\ [][Next]_vars

-----------------------------------------------------------------------------
(* Properties *)

Held(d) == {keypairs[d].current, keypairs[d].previous, keypairs[d].next} \ {NoKeypair}

\* The responder sends nothing under a key until the initiator has it: every
\* packet of a responder was made after the initiator had derived the keypair.
ConfirmedBeforeUse ==
    \A m \in net : m.type = "data" /\ ~m.init =>
      \E kp \in derived[m.to] : kp.key = m.chain /\ kp.init

\* The index table forgets what the peer forgets: a keypair in it is one the peer
\* holds, and a handshake in it is the one under way, however Stop, a timer and
\* the workers interleave.
NoOrphanEntry ==
    \A d \in Devices, i \in Indices :
      /\ table[d][i].st = "keypair" => table[d][i].kp \in Held(d) /\ table[d][i].kp.li = i
      /\ table[d][i].st = "handshake" => hs[d].li = i

\* A keypair the peer holds can be received with.  ConsumeMessageResponse checks
\* under RLock and writes under Lock; unless the handshake changes in between,
\* this is what keeps a session from being deaf.
HeldIsReachable ==
    stale = {} => \A d \in Devices : \A kp \in Held(d) :
      kp.li \in Indices /\ table[d][kp.li] = KeypairEntry(kp)

\* An initiation gives each side one session at most, whatever is delivered twice:
\* no key is derived again (its nonces would start again) and no initiation is
\* answered again, unless a worker applies what another one has overtaken.
OneSessionPerInitiation ==
    stale = {} => \A d \in Devices : \A k, l \in derived[d] :
      SubSeq(k.key, 1, 2) = SubSeq(l.key, 1, 2) => k = l

\* Two ends of one session have each other's index and opposite roles.
EndsAgree ==
    stale = {} => \A d \in Devices : \A k \in derived[d], l \in derived[Other(d)] :
      k.key = l.key => k.ri = l.li /\ k.li = l.ri /\ k.init # l.init
=============================================================================
