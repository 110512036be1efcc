------------------------------ MODULE WgOutbound ------------------------------
(***************************************************************************)
(* The outbound path of a WireGuard peer: InputPackets, StagePackets,      *)
(* SendStagedPackets, the encryption workers and RoutineSequentialSender   *)
(* of wireguard-go/device/send.go, with Start and Stop of peer.go.         *)
(*                                                                         *)
(* Any goroutine with a packet runs SendStagedPackets: what one has staged *)
(* another may take.  A container goes to the peer's outbound queue and to *)
(* the encryption queue; the sender waits until it is encrypted.  Packets  *)
(* are model values and a container is the sequence of its packets, so     *)
(* that it has an identity; the nil that ends the sender is the empty one. *)
(* A handshake that a missing key starts is WgSession's, and gives the     *)
(* peer a new key at any time; so does the age of a key.                   *)
(***************************************************************************)
EXTENDS Integers, FiniteSets, Sequences, Functions

CONSTANTS Callers, Packets,
          MaxQueued,                 \* maxQueuedInputPackets
          StagedSize, OutboundSize,  \* QueueStagedSize, QueueOutboundSize
          NonceBits,                 \* the width of sendNonce
          Reject,                    \* RejectAfterMessages
          MaxBatch,                  \* packets in a container
          MaxKeys, MaxStops          \* bounds

ASSUME OutboundAssumption ==
    /\ {MaxQueued, StagedSize, OutboundSize, NonceBits, Reject} \subseteq Nat \ {0}
    /\ {MaxBatch, MaxKeys, MaxStops} \subseteq Nat
    /\ IsFiniteSet(Callers) /\ 2 ^ NonceBits \in Nat
    /\ Reject + Cardinality(Callers) <= 2 ^ NonceBits

VARIABLES
    caller,     \* the goroutines that send
    staged,     \* peer.queue.staged
    outbound,   \* peer.queue.outbound.c
    encryption, \* the containers in device.queue.encryption.c
    filling,    \* the containers whose filling is not done
    sender,     \* RoutineSequentialSender
    current,    \* peer.keypairs.current; 0 is nil
    made,       \* how many keypairs there have been
    sendNonce,  \* of each keypair
    queued,     \* peer.queuedOutboundPackets
    running,    \* peer.isRunning
    closer,     \* progress of Stop, Start and the timers
    stops,      \* how often Stop was called or a timer expired
    drawn,      \* ghost: how many packets got a nonce of a keypair
    straddled   \* ghost: a packet or call was under way when Start reset the counter

queues == <<staged, outbound, encryption, filling>>

life == <<running, closer, stops, straddled>>

vars == <<caller, queues, sender, current, made, sendNonce, queued, life, drawn>>

Keys == 1..MaxKeys

Nil == <<>>

Idle == [pc |-> "idle", key |-> 0, box |-> <<>>, good |-> <<>>, late |-> <<>>,
         ooo |-> FALSE, priority |-> FALSE]

Init ==
    /\ caller = [c \in Callers |-> Idle]
    /\ staged = <<>> /\ outbound = <<>>
    /\ encryption = {} /\ filling = {}
    /\ sender = [pc |-> "idle", box |-> Nil]
    /\ current = 0 /\ made = 0
    /\ sendNonce = [k \in Keys |-> 0]
    /\ queued = 0
    /\ running = TRUE /\ closer = "idle" /\ stops = 0
    /\ drawn = [k \in Keys |-> [n \in 0..(Reject - 1) |-> 0]]
    /\ straddled = FALSE

AllElems(boxes) == UNION {Range(box) : box \in Range(boxes)}

\* The packets a caller has taken and not passed on.
InHand(c) ==
    IF caller[c].pc = "encryption" THEN {}
    ELSE UNION {Range(caller[c].box), Range(caller[c].good), Range(caller[c].late)}

\* Every packet that has a buffer of the pool.
Live == UNION {AllElems(staged), AllElems(outbound), Range(sender.box),
               UNION {InHand(c) : c \in Callers}}

Free == Packets \ Live

At(c, pc) == caller[c].pc = pc

Become(c, state) == caller' = [caller EXCEPT ![c] = state]

Goto(c, pc) == Become(c, [caller[c] EXCEPT !.pc = pc])

Usable(k) == k # 0 /\ sendNonce[k] < Reject

-----------------------------------------------------------------------------
(* InputPackets, StagePackets, SendKeepalive *)

\* A caller has packets, and the backlog is below maxQueuedInputPackets.
Input(c) ==
    /\ At(c, "idle") /\ queued < MaxQueued
    /\ \E n \in 1..MaxBatch : \E box \in [1..n -> Free] :
         /\ IsInjective(box)
         /\ Become(c, [Idle EXCEPT !.pc = "running", !.box = box])
    /\ UNCHANGED <<queues, sender, current, made, sendNonce, queued, life, drawn>>

\* peer.isRunning is looked at once the packets are copied.
CheckRunning(c) ==
    /\ At(c, "running")
    /\ IF running THEN Goto(c, "stage") ELSE Become(c, Idle)
    /\ UNCHANGED <<queues, sender, current, made, sendNonce, queued, life, drawn>>

\* StagePackets counts the packets before there is room for them.
CountStaged(c) ==
    /\ At(c, "stage")
    /\ queued' = queued + Len(caller[c].box)
    /\ Goto(c, "push")
    /\ UNCHANGED <<queues, sender, current, made, sendNonce, life, drawn>>

\* A full queue loses its oldest container, until there is room.
PushStaged(c) ==
    /\ At(c, "push")
    /\ IF Len(staged) < StagedSize
       THEN /\ staged' = Append(staged, caller[c].box)
            /\ Become(c, [caller[c] EXCEPT !.box = <<>>,
                            !.pc = IF caller[c].ooo THEN "dispatch" ELSE "top"])
            /\ UNCHANGED queued
       ELSE /\ staged' = Tail(staged)
            /\ queued' = queued - Len(Head(staged))
            /\ UNCHANGED caller
    /\ UNCHANGED <<outbound, encryption, filling, sender, current, made, sendNonce, life, drawn>>

\* SendKeepalive: an empty packet, if nothing else is staged ...
Keepalive(c) ==
    /\ At(c, "idle")
    /\ IF staged = <<>> /\ running
       THEN \E p \in Free : Become(c, [Idle EXCEPT !.pc = "keepalive", !.box = <<p>>])
       ELSE Goto(c, "top")
    /\ UNCHANGED <<queues, sender, current, made, sendNonce, queued, life, drawn>>

\* ... that gives way to others ...
PushKeepalive(c) ==
    /\ At(c, "keepalive")
    /\ IF Len(staged) < StagedSize
       THEN staged' = Append(staged, caller[c].box) /\ Become(c, [Idle EXCEPT !.pc = "count"])
       ELSE Become(c, [Idle EXCEPT !.pc = "top"]) /\ UNCHANGED staged
    /\ UNCHANGED <<outbound, encryption, filling, sender, current, made, sendNonce, queued,
                   life, drawn>>

\* ... and is counted when others may have it.
CountKeepalive(c) ==
    /\ At(c, "count")
    /\ queued' = queued + 1
    /\ Goto(c, "top")
    /\ UNCHANGED <<queues, sender, current, made, sendNonce, life, drawn>>

-----------------------------------------------------------------------------
(* SendStagedPackets and SendPriorityMessage *)

\* Without a usable key (it may be too old) a handshake is started, and the
\* packets wait for it.
Top(c) ==
    /\ At(c, "top")
    /\ \/ Become(c, Idle)
       \/ /\ staged # <<>> /\ Usable(current)
          /\ Become(c, [Idle EXCEPT !.pc = "take", !.key = current])
    /\ UNCHANGED <<queues, sender, current, made, sendNonce, queued, life, drawn>>

Take(c) ==
    /\ At(c, "take")
    /\ IF staged = <<>>
       THEN Become(c, Idle) /\ UNCHANGED staged
       ELSE /\ Become(c, [caller[c] EXCEPT !.pc = "nonce", !.box = Head(staged)])
            /\ staged' = Tail(staged)
    /\ UNCHANGED <<outbound, encryption, filling, sender, current, made, sendNonce, queued,
                   life, drawn>>

\* A message that passes the staged ones, and never starts a handshake.
Priority(c) ==
    /\ At(c, "idle") /\ Usable(current)
    /\ \E p \in Free : Become(c, [Idle EXCEPT !.pc = "nonce", !.key = current, !.box = <<p>>,
                                              !.priority = TRUE])
    /\ UNCHANGED <<queues, sender, current, made, sendNonce, queued, life, drawn>>

\* sendNonce.Add(1) - 1, which wraps, for the next packet of the container.
AddNonce(c) ==
    LET me == caller[c]  k == me.key  p == Head(me.box)  n == sendNonce[k] IN
    /\ At(c, "nonce") /\ me.box # <<>>
    /\ sendNonce' = [sendNonce EXCEPT ![k] = (n + 1) % 2 ^ NonceBits]
    /\ IF n >= Reject
       THEN /\ Become(c, [me EXCEPT !.pc = "exhausted", !.box = Tail(@), !.late = Append(@, p)])
            /\ UNCHANGED drawn
       ELSE /\ Become(c, [me EXCEPT !.box = Tail(@), !.good = Append(@, p)])
            /\ drawn' = [drawn EXCEPT ![k][n] = @ + 1]
    /\ UNCHANGED <<queues, sender, current, made, queued, life>>

\* Mutant: the counter is left where it is.
ExhaustedLeft(c) ==
    /\ At(c, "exhausted")
    /\ Goto(c, "nonce")
    /\ UNCHANGED <<queues, sender, current, made, sendNonce, queued, life, drawn>>

\* sendNonce.Store(RejectAfterMessages)
Exhausted(c) ==
    /\ At(c, "exhausted")
    /\ sendNonce' = [sendNonce EXCEPT ![caller[c].key] = Reject]
    /\ Goto(c, "nonce")
    /\ UNCHANGED <<queues, sender, current, made, queued, life, drawn>>

\* Mutant: what is staged again is counted again.
RestageCountedAgain(c) ==
    LET me == caller[c] IN
    /\ At(c, "nonce") /\ me.box = <<>>
    /\ IF me.late = <<>> THEN Goto(c, "dispatch")
       ELSE IF me.priority THEN Become(c, Idle)
       ELSE Become(c, [me EXCEPT !.pc = "stage", !.box = me.late, !.late = <<>>, !.ooo = TRUE])
    /\ UNCHANGED <<queues, sender, current, made, sendNonce, queued, life, drawn>>

\* The packets that got no nonce are staged again, behind the others; a
\* priority message is given up.
Restage(c) ==
    LET me == caller[c] IN
    /\ At(c, "nonce") /\ me.box = <<>>
    /\ IF me.late = <<>>
       THEN Goto(c, "dispatch") /\ UNCHANGED queued
       ELSE IF me.priority
       THEN Become(c, Idle) /\ UNCHANGED queued
       ELSE /\ Become(c, [me EXCEPT !.pc = "stage", !.box = me.late, !.late = <<>>, !.ooo = TRUE])
            /\ queued' = queued - Len(me.late)
    /\ UNCHANGED <<queues, sender, current, made, sendNonce, life, drawn>>

\* Where a caller goes on once a container is dealt with.
Again(me) ==
    IF me.priority THEN Idle
    ELSE IF me.ooo THEN [Idle EXCEPT !.pc = "top"]
    ELSE [Idle EXCEPT !.pc = "take", !.key = me.key]

\* The container goes on if the peer is running, and is dropped if not.
Dispatch(c) ==
    LET me == caller[c] IN
    /\ At(c, "dispatch")
    /\ IF me.good # <<>> /\ running
       THEN Goto(c, IF me.priority THEN "priority" ELSE "outbound") /\ UNCHANGED queued
       ELSE /\ Become(c, Again(me))
            /\ queued' = IF me.priority THEN queued ELSE queued - Len(me.good)
    /\ UNCHANGED <<queues, sender, current, made, sendNonce, life, drawn>>

CountPriority(c) ==
    /\ At(c, "priority")
    /\ queued' = queued + 1
    /\ Goto(c, "outbound")
    /\ UNCHANGED <<queues, sender, current, made, sendNonce, life, drawn>>

\* First the queue of the peer ...
ToOutbound(c) ==
    /\ At(c, "outbound") /\ Len(outbound) < OutboundSize
    /\ outbound' = Append(outbound, caller[c].good)
    /\ filling' = filling \union {caller[c].good}
    /\ Goto(c, "encryption")
    /\ UNCHANGED <<staged, encryption, sender, current, made, sendNonce, queued, life, drawn>>

\* Mutant: a container of a stopped peer is not given to the workers.
ToEncryptionIfRunning(c) ==
    /\ At(c, "encryption") /\ Cardinality(encryption) < OutboundSize
    /\ encryption' = IF running THEN encryption \union {caller[c].good} ELSE encryption
    /\ Become(c, Again(caller[c]))
    /\ UNCHANGED <<staged, outbound, filling, sender, current, made, sendNonce, queued, life, drawn>>

\* ... then that of the encryption workers.
ToEncryption(c) ==
    /\ At(c, "encryption") /\ Cardinality(encryption) < OutboundSize
    /\ encryption' = encryption \union {caller[c].good}
    /\ Become(c, Again(caller[c]))
    /\ UNCHANGED <<staged, outbound, filling, sender, current, made, sendNonce, queued, life, drawn>>

-----------------------------------------------------------------------------
(* The workers, the sender, the keypairs *)

\* RoutineEncryption: the workers finish in any order.
Encrypt(box) ==
    /\ box \in encryption
    /\ encryption' = encryption \ {box}
    /\ filling' = filling \ {box}
    /\ UNCHANGED <<caller, staged, outbound, sender, current, made, sendNonce, queued, life, drawn>>

SenderTake ==
    /\ sender.pc = "idle" /\ outbound # <<>>
    /\ outbound' = Tail(outbound)
    /\ sender' = [pc |-> IF Head(outbound) = Nil THEN "stopped" ELSE "wait",
                  box |-> Head(outbound)]
    /\ UNCHANGED <<caller, staged, encryption, filling, current, made, sendNonce, queued, life, drawn>>

\* Mutant: a stopped peer drops the container before it is filled.
SenderDoneEarly ==
    /\ sender.pc = "wait" /\ (running => sender.box \notin filling)
    /\ sender' = [pc |-> "idle", box |-> Nil]
    /\ queued' = queued - Len(sender.box)
    /\ UNCHANGED <<caller, queues, current, made, sendNonce, life, drawn>>

\* processOutboundContainer, once filling is done: the packets are sent, or
\* dropped if the peer was stopped, and the buffers go back to the pool.
SenderDone ==
    /\ sender.pc = "wait" /\ sender.box \notin filling
    /\ sender' = [pc |-> "idle", box |-> Nil]
    /\ queued' = queued - Len(sender.box)
    /\ UNCHANGED <<caller, queues, current, made, sendNonce, life, drawn>>

\* BeginSymmetricSession or ReceivedWithKeypair: a new current keypair.
NewKeypair ==
    /\ made < MaxKeys                                                  \* bound
    /\ made' = made + 1 /\ current' = made + 1
    /\ UNCHANGED <<caller, queues, sender, sendNonce, queued, life, drawn>>

\* ExpireCurrentKeypairs leaves the current keypair no nonce.
ExpireCurrentKeypairs ==
    /\ current # 0
    /\ sendNonce' = [sendNonce EXCEPT ![current] = Reject]
    /\ UNCHANGED <<caller, queues, sender, current, made, queued, life, drawn>>

-----------------------------------------------------------------------------
(* Stop and Start *)

Close(from, to) == closer = from /\ closer' = to

StopBegin ==
    /\ Close("idle", "signal") /\ stops < MaxStops                      \* bound
    /\ running' = FALSE /\ stops' = stops + 1
    /\ UNCHANGED <<caller, queues, sender, current, made, sendNonce, queued, drawn, straddled>>

\* The nil for RoutineSequentialSender; then stopping.Wait.
StopSignal ==
    /\ Close("signal", "wait") /\ Len(outbound) < OutboundSize
    /\ outbound' = Append(outbound, Nil)
    /\ UNCHANGED <<caller, staged, encryption, filling, sender, current, made, sendNonce, queued,
                   running, stops, drawn, straddled>>

\* ZeroAndFlushAll: no key is left ...
StopZero ==
    /\ Close("wait", "zeroed") /\ sender.pc = "stopped"
    /\ current' = 0
    /\ UNCHANGED <<caller, queues, sender, made, sendNonce, queued, running, stops, drawn, straddled>>

\* The timers of a running peer: expiredZeroKeyMaterial does the same, and
\* expiredRetransmitHandshake, when it gives up, only flushes.
TimerExpires ==
    /\ Close("idle", "expired") /\ running /\ stops < MaxStops             \* bound
    /\ current' \in {0, current} /\ stops' = stops + 1
    /\ UNCHANGED <<caller, queues, sender, made, sendNonce, queued, running, drawn, straddled>>

\* ... and FlushStagedPackets.
Flush ==
    /\ Close("zeroed", "stopped") \/ Close("expired", "idle")
    /\ staged' = <<>>
    /\ queued' = queued - Cardinality(AllElems(staged))
    /\ UNCHANGED <<caller, outbound, encryption, filling, sender, current, made, sendNonce,
                   running, stops, drawn, straddled>>

\* Start: the counter is reset, whatever a caller still has ...
StartReset ==
    /\ Close("stopped", "flush")
    /\ queued' = 0
    /\ straddled' = (straddled \/ staged # <<>> \/ \E c \in Callers : ~At(c, "idle"))
    /\ UNCHANGED <<caller, queues, sender, current, made, sendNonce, running, stops, drawn>>

\* ... flushOutboundQueue waits for each container to be filled ...
StartFlush ==
    /\ closer = "flush" /\ outbound # <<>> /\ Head(outbound) \notin filling
    /\ outbound' = Tail(outbound)
    /\ UNCHANGED <<caller, staged, encryption, filling, sender, current, made, sendNonce, queued,
                   life, drawn>>

\* ... and the routines run again.
StartRun ==
    /\ Close("flush", "idle") /\ outbound = <<>>
    /\ sender' = [pc |-> "idle", box |-> Nil]
    /\ running' = TRUE
    /\ UNCHANGED <<caller, queues, current, made, sendNonce, queued, stops, drawn, straddled>>

-----------------------------------------------------------------------------

Call(c) ==
    \/ CheckRunning(c) \/ CountStaged(c) \/ PushStaged(c) \/ PushKeepalive(c)
    \/ CountKeepalive(c) \/ Top(c) \/ Take(c) \/ AddNonce(c) \/ Exhausted(c)
    \/ Restage(c) \/ Dispatch(c) \/ CountPriority(c) \/ ToOutbound(c) \/ ToEncryption(c)

Send == SenderTake \/ SenderDone

Work == \E box \in encryption : Encrypt(box)

StopGoesOn == StopSignal \/ StopZero \/ Flush

StartGoesOn == StartFlush \/ StartRun

Next ==
    \/ \E c \in Callers : Input(c) \/ Keepalive(c) \/ Priority(c) \/ Call(c)
    \/ Work \/ Send
    \/ NewKeypair \/ ExpireCurrentKeypairs
    \/ StopBegin \/ TimerExpires \/ StopGoesOn \/ StartReset \/ StartGoesOn

Spec == Init /\ [][Next]_vars

-----------------------------------------------------------------------------
(* Properties *)

\* No two packets are sealed with one nonce of one keypair, though goroutines
\* draw nonces side by side, the counter wraps, and it is stored over when it
\* is used up.
NonceOnce == \A k \in Keys : \A n \in 0..(Reject - 1) : drawn[k][n] <= 1

\* A buffer has one owner: no two goroutines and queues hold it, and what an
\* encryption worker still has to seal was not returned to the pool by the
\* sender or by the flush of a restart.
OneOwner ==
    /\ \A c, d \in Callers : c # d => InHand(c) \intersect InHand(d) = {}
    /\ LET at == <<AllElems(staged), AllElems(outbound), Range(sender.box),
                   UNION {InHand(c) : c \in Callers}>>
       IN \A s, t \in 1..4 : s < t => at[s] \intersect at[t] = {}
    /\ \A box \in filling : box = sender.box \/ box \in Range(outbound)

\* The packets that are counted.
Counted ==
    UNION {AllElems(staged), Range(sender.box),
           IF closer = "flush" THEN {} ELSE AllElems(outbound)}

CallerCounts(c) ==
    LET me == caller[c] IN
    CASE me.pc = "push" -> Len(me.box) + Len(me.good)
      [] me.pc \in {"nonce", "exhausted", "stage", "dispatch", "outbound"} /\ ~me.priority
           -> IF me.pc = "stage" THEN Len(me.good) ELSE Len(me.box) + Len(me.good) + Len(me.late)
      [] me.pc = "outbound" -> 1
      [] me.pc = "count" -> -1
      [] OTHER -> 0

\* queuedOutboundPackets is the number of packets staged and outbound, in
\* whatever hands they are: InputPackets neither refuses because of packets
\* that are gone nor takes more than it should.  What a straggler still staged
\* or held when Start reset the counter is the one exception.
QueuedExact ==
    ~straddled =>
        queued = Cardinality(Counted) + FoldFunction(+, 0, [c \in Callers |-> CallerCounts(c)])

\* Nobody waits for ever for somebody who waits for them: while Stop or Start
\* waits for room, for the sender or for a container to be filled, the sender,
\* a worker, or a caller with a container to be encrypted can go on.
NotStuck ==
    closer \notin {"idle", "stopped"} =>
        ENABLED (\/ StopGoesOn \/ StartGoesOn \/ Send \/ Work
                 \/ \E c \in Callers : ToEncryption(c))
=============================================================================
