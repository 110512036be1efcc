--------------------------- MODULE WgSessionProofs --------------------------
(***************************************************************************)
(* WgSession for any indices, workers and number of handshakes: what the   *)
(* index table, the keypairs and the handshake have to do with each other, *)
(* and what two peers know of one session.                                 *)
(***************************************************************************)
EXTENDS WgSession, TLAPS

HsFields == {"st", "li", "ri", "chain"}

IsKeypair(k) == DOMAIN k = {"key", "init", "li", "ri"} /\ k.init \in BOOLEAN

IsSlot(t) == t = Free \/ t = HandshakeEntry \/ t = KeypairEntry(t.kp)

Initiations == Devices \X Nat

Responses == Devices \X Nat \X Nat

\* What is written down of a handshake message: by its sender, and by a worker.
IsInitiation(m) ==
    m.type = "initiation" /\ m.to \in Devices /\ m.chain \in Initiations
    /\ m.chain[1] = Other(m.to)

IsResponse(m) ==
    m.type = "response" /\ m.to \in Devices /\ m.chain \in Responses /\ m.chain[1] = m.to

IsData(m) == m.type = "data" /\ m.to \in Devices

IsMessage(m) == IsInitiation(m) \/ IsResponse(m) \/ IsData(m)

HsOk(d) ==
    /\ DOMAIN hs[d] = HsFields /\ hs[d].li \in Indices \union {NoIndex}
    /\ hs[d].st \in {"zeroed", "initiationCreated", "initiationConsumed",
                     "responseCreated", "responseConsumed"}
    /\ hs[d].st = "initiationCreated" => hs[d].chain \in Initiations /\ hs[d].chain[1] = d
    /\ hs[d].st = "initiationConsumed" =>
         hs[d].chain \in Initiations /\ hs[d].chain[1] = Other(d)
    /\ hs[d].st = "responseCreated" => hs[d].chain \in Responses /\ hs[d].chain[1] = Other(d)
    /\ hs[d].st = "responseConsumed" => hs[d].chain \in Responses /\ hs[d].chain[1] = d

HsTypes == DOMAIN hs = Devices /\ \A d \in Devices : HsOk(d)

KeysOk(d) ==
    /\ DOMAIN keypairs[d] = {"current", "previous", "next"}
    /\ IsKeypair(keypairs[d].current) /\ IsKeypair(keypairs[d].previous)
    /\ IsKeypair(keypairs[d].next) /\ IsKeypair(inbound[d])
    /\ \A k \in derived[d] : /\ IsKeypair(k) /\ k.key \in Responses
                             /\ k.key[1] = IF k.init THEN d ELSE Other(d)

KeyTypes ==
    /\ DOMAIN keypairs = Devices /\ DOMAIN derived = Devices /\ DOMAIN inbound = Devices
    /\ \A d \in Devices : KeysOk(d)

TableOk(d) ==
    /\ DOMAIN table[d] = Indices
    /\ \A i \in Indices : /\ IsSlot(table[d][i])
                          /\ table[d][i].st = "keypair" => IsKeypair(table[d][i].kp)

TableTypes == DOMAIN table = Devices /\ \A d \in Devices : TableOk(d)

WorkOk(d, w) ==
    /\ worker[d][w].pc = "initiationChecked" =>
         worker[d][w].msg \in net /\ IsInitiation(worker[d][w].msg) /\ worker[d][w].msg.to = d
    /\ worker[d][w].pc = "responseChecked" =>
         worker[d][w].msg \in net /\ IsResponse(worker[d][w].msg) /\ worker[d][w].msg.to = d
    /\ worker[d][w].pc = "responseCreated" =>
         IsResponse(worker[d][w].msg) /\ worker[d][w].msg.to = Other(d)

WorkTypes ==
    /\ DOMAIN worker = Devices /\ \A d \in Devices : DOMAIN worker[d] = Workers[d]
    /\ \A m \in net : IsMessage(m)
    /\ \A d \in Devices : \A w \in Workers[d] : WorkOk(d, w)

Types ==
    /\ lastTs \in [Devices -> Nat] /\ eph \in [Devices -> Nat]
    /\ HsTypes /\ KeyTypes /\ TableTypes /\ WorkTypes

SamePrefix(c, e) == c[1] = e[1] /\ c[2] = e[2]

-----------------------------------------------------------------------------
\* The two devices.
LEMMA Others ==
    \A d \in Devices : /\ Other(d) \in Devices /\ Other(d) # d /\ Other(Other(d)) = d
                       /\ \A e \in Devices : e # d => e = Other(d)
<1>1. PICK x, y \in Devices : x # y /\ Devices = {x, y}
  BY SessionAssumption
<1>2. \A d \in Devices : Other(d) \in Devices /\ Other(d) # d
  <2> SUFFICES ASSUME NEW d \in Devices PROVE Other(d) \in Devices /\ Other(d) # d
    OBVIOUS
  <2>1. \E e \in Devices : e # d
    BY <1>1
  <2> QED BY <2>1 DEF Other
<1> QED BY <1>1, <1>2

\* Chains of an initiation and of a response.
LEMMA ChainsOf ==
    /\ \A c \in Initiations : /\ c[1] \in Devices /\ c[2] \in Nat /\ c = <<c[1], c[2]>>
                              /\ c \notin Responses
    /\ \A c \in Responses : /\ c[1] \in Devices /\ c[2] \in Nat /\ c[3] \in Nat
                            /\ c = <<c[1], c[2], c[3]>>
  BY DEF Initiations, Responses

\* The response extends the chain of the initiation.
LEMMA ChainExtends ==
    \A c \in Initiations, r \in Nat :
      LET e == Append(c, r) IN
      e \in Responses /\ e[1] = c[1] /\ e[2] = c[2] /\ e[3] = r
<1> SUFFICES ASSUME NEW c \in Initiations, NEW r \in Nat
             PROVE LET e == Append(c, r) IN
                   e \in Responses /\ e[1] = c[1] /\ e[2] = c[2] /\ e[3] = r
  OBVIOUS
<1>1. PICK a \in Devices, n \in Nat : c = <<a, n>>
  BY DEF Initiations
<1> DEFINE S == Devices \union Nat
           s == <<a, n>>
           t == <<a, n, r>>
<1>2. s \in Seq(S) /\ r \in S /\ Len(s) = 2 /\ t \in Seq(S) /\ Len(t) = 3
  OBVIOUS
<1>3. /\ Append(s, r) \in Seq(S) /\ Len(Append(s, r)) = 3
      /\ \A i \in 1..3 : Append(s, r)[i] = t[i]
  <2> HIDE DEF S
  <2>1. /\ Append(s, r) \in Seq(S) /\ Len(Append(s, r)) = Len(s) + 1
        /\ \A i \in 1..Len(s) : Append(s, r)[i] = s[i]
        /\ Append(s, r)[Len(s) + 1] = r
    BY <1>2
  <2>2. Append(s, r)[1] = t[1] /\ Append(s, r)[2] = t[2] /\ Append(s, r)[3] = t[3]
    BY <1>2, <2>1
  <2> QED BY <1>2, <2>1, <2>2
<1>4. Append(s, r) = t
  <2> HIDE DEF s, t, S
  <2> QED BY <1>2, <1>3
<1> QED BY <1>1, <1>4 DEF Responses

\* And has it as its prefix.
LEMMA ChainPrefix == \A c \in Responses : SubSeq(c, 1, 2) = <<c[1], c[2]>>
<1> SUFFICES ASSUME NEW c \in Responses PROVE SubSeq(c, 1, 2) = <<c[1], c[2]>>
  OBVIOUS
<1>1. PICK a \in Devices, n, r \in Nat : c = <<a, n, r>>
  BY DEF Responses
<1> DEFINE S == Devices \union Nat
           s == <<a, n, r>>
           t == <<a, n>>
<1>2. \A i \in 1..2 : s[i] \in S /\ s[i] = t[i]
  OBVIOUS
<1>3. t \in Seq(S) /\ Len(t) = 2
  OBVIOUS
<1> HIDE DEF s, t, S
<1>4. /\ SubSeq(s, 1, 2) \in Seq(S) /\ Len(SubSeq(s, 1, 2)) = 2
      /\ \A i \in 1..2 : SubSeq(s, 1, 2)[i] = s[i]
  BY <1>2
<1>5. SubSeq(s, 1, 2) = t
  BY <1>2, <1>3, <1>4
<1> QED BY <1>1, <1>5 DEF s, t

-----------------------------------------------------------------------------
(* What a step of a device does, part by part. *)

HsIs(d, st, li, ri, chain) ==
    /\ DOMAIN hs' = Devices /\ \A e \in Devices : e # d => hs'[e] = hs[e]
    /\ DOMAIN hs'[d] = HsFields /\ hs'[d].st = st /\ hs'[d].li = li
    /\ hs'[d].ri = ri /\ hs'[d].chain = chain

WorkIs(d, w, job) ==
    /\ DOMAIN worker' = Devices /\ \A e \in Devices : DOMAIN worker'[e] = Workers[e]
    /\ worker'[d][w] = job
    /\ \A e \in Devices : \A v \in Workers[e] : <<e, v>> # <<d, w>> => worker'[e][v] = worker[e][v]

TableAt(d) ==
    /\ DOMAIN table' = Devices /\ \A e \in Devices : e # d => table'[e] = table[e]
    /\ DOMAIN table'[d] = Indices

Deleted(d, is) ==
    TableAt(d) /\ \A i \in Indices : table'[d][i] = IF i \in is THEN Free ELSE table[d][i]

Reindexed(d, i) ==
    /\ TableAt(d) /\ i \in Indices
    /\ i = hs[d].li \/ table[d][i] = Free
    /\ table'[d][i] = HandshakeEntry
    /\ \A j \in Indices : j # i => table'[d][j] = IF j = hs[d].li THEN Free ELSE table[d][j]

KeysAre(d, current, previous, next) ==
    /\ DOMAIN keypairs' = Devices /\ \A e \in Devices : e # d => keypairs'[e] = keypairs[e]
    /\ DOMAIN keypairs'[d] = {"current", "previous", "next"}
    /\ keypairs'[d].current = current /\ keypairs'[d].previous = previous
    /\ keypairs'[d].next = next

Drew(d) ==
    eph' \in [Devices -> Nat] /\ eph'[d] = eph[d] + 1
    /\ \A e \in Devices : e # d => eph'[e] = eph[e]

\* Work gives one worker of one device its next job.
LEMMA WorkEffect ==
    ASSUME WorkTypes, NEW d \in Devices, NEW w \in Workers[d], NEW job, Work(d, w, job)
    PROVE WorkIs(d, w, job)
  BY DEF WorkTypes, Work, WorkIs

\* Delete frees the indices of one device and leaves every other entry.
LEMMA DeleteEffect ==
    ASSUME TableTypes, NEW d \in Devices, NEW is,
           table' = [table EXCEPT ![d] = Delete(@, is)]
    PROVE Deleted(d, is)
  BY DEF TableTypes, TableAt, Deleted, Delete

\* Reindex takes a free index, or the one the handshake had, for the handshake.
LEMMA ReindexEffect ==
    ASSUME TableTypes, NEW d \in Devices, NEW i \in Indices, Reindex(d, i)
    PROVE Reindexed(d, i)
  BY DEF TableTypes, TableAt, Reindexed, Reindex, Delete, Free, HandshakeEntry

\* A device draws its next ephemeral.
LEMMA DrawEffect ==
    ASSUME Types, NEW d \in Devices, eph' = [eph EXCEPT ![d] = @ + 1]
    PROVE Drew(d)
  BY DEF Types, Drew

InitiationOf(d, i) == [type |-> "initiation", to |-> Other(d), sender |-> i, chain |-> <<d, eph'[d]>>]

ResponseOf(d, i) ==
    [type |-> "response", to |-> Other(d), sender |-> i, receiver |-> hs[d].ri,
     chain |-> Append(hs[d].chain, eph'[d])]

\* SendHandshakeInitiation, part by part.
LEMMA SendInitiationEffect ==
    ASSUME Types, NEW d \in Devices, SendInitiation(d)
    PROVE \E i \in Indices :
            /\ Drew(d) /\ Reindexed(d, i)
            /\ HsIs(d, "initiationCreated", i, hs[d].ri, <<d, eph'[d]>>)
            /\ net' = net \union {InitiationOf(d, i)}
            /\ UNCHANGED <<lastTs, keypairs, worker, inbound, life, derived, stale>>
<1>1. PICK i \in Indices :
         /\ Reindex(d, i)
         /\ hs' = [hs EXCEPT ![d] = [@ EXCEPT !.st = "initiationCreated", !.li = i,
                                              !.chain = <<d, eph'[d]>>]]
         /\ net' = net \union {InitiationOf(d, i)}
  BY Zenon DEF SendInitiation, InitiationOf
<1>2. HsIs(d, "initiationCreated", i, hs[d].ri, <<d, eph'[d]>>)
  BY <1>1 DEF Types, HsTypes, HsOk, HsFields, HsIs
<1>3. Drew(d)
  BY DrawEffect, Zenon DEF SendInitiation
<1>4. Reindexed(d, i)
  BY <1>1, ReindexEffect DEF Types
<1> QED BY <1>1, <1>2, <1>3, <1>4 DEF SendInitiation

\* CreateMessageResponse, part by part.
LEMMA CreateResponseEffect ==
    ASSUME Types, NEW d \in Devices, NEW w \in Workers[d], CreateResponse(d, w)
    PROVE \E i \in Indices :
            /\ worker[d][w].pc = "respond" /\ hs[d].st = "initiationConsumed"
            /\ Drew(d) /\ Reindexed(d, i)
            /\ HsIs(d, "responseCreated", i, hs[d].ri, Append(hs[d].chain, eph'[d]))
            /\ WorkIs(d, w, [pc |-> "responseCreated", msg |-> ResponseOf(d, i)])
            /\ UNCHANGED <<lastTs, keypairs, inbound, life, net, derived, stale>>
<1>1. PICK i \in Indices :
         /\ Reindex(d, i)
         /\ hs' = [hs EXCEPT ![d] = [@ EXCEPT !.st = "responseCreated", !.li = i,
                                              !.chain = Append(hs[d].chain, eph'[d])]]
         /\ Work(d, w, [pc |-> "responseCreated",
                        msg |-> [type |-> "response", to |-> Other(d), sender |-> i,
                                 receiver |-> hs[d].ri, chain |-> hs'[d].chain]])
  BY Zenon DEF CreateResponse
<1>2. HsIs(d, "responseCreated", i, hs[d].ri, Append(hs[d].chain, eph'[d]))
  <2> DEFINE c == Append(hs[d].chain, eph'[d])
  <2>1. hs' = [hs EXCEPT ![d] = [@ EXCEPT !.st = "responseCreated", !.li = i, !.chain = c]]
    BY <1>1
  <2> HIDE DEF c
  <2>2. HsIs(d, "responseCreated", i, hs[d].ri, c)
    BY <2>1 DEF Types, HsTypes, HsOk, HsFields, HsIs
  <2> QED BY <2>2 DEF c
<1>3. Drew(d)
  BY DrawEffect, Zenon DEF CreateResponse
<1>4. Reindexed(d, i)
  BY <1>1, ReindexEffect DEF Types
<1>5. Work(d, w, [pc |-> "responseCreated", msg |-> ResponseOf(d, i)])
  BY <1>1, <1>2 DEF HsIs, ResponseOf
<1>6. WorkIs(d, w, [pc |-> "responseCreated", msg |-> ResponseOf(d, i)])
  BY <1>5, WorkEffect DEF Types
<1> QED BY <1>1, <1>2, <1>3, <1>4, <1>6 DEF CreateResponse

\* The second half of ConsumeMessageInitiation, part by part.
LEMMA ConsumeInitiationEffect ==
    ASSUME Types, NEW d \in Devices, NEW w \in Workers[d], ConsumeInitiation(d, w)
    PROVE LET m == worker[d][w].msg IN
          /\ worker[d][w].pc = "initiationChecked"
          /\ HsIs(d, "initiationConsumed", hs[d].li, m.sender, m.chain)
          /\ WorkIs(d, w, [pc |-> "respond"])
          /\ lastTs' \in [Devices -> Nat] /\ \A e \in Devices : e # d => lastTs'[e] = lastTs[e]
          /\ lastTs[d] <= lastTs'[d] /\ m.chain[2] <= lastTs'[d]
          /\ stale \subseteq stale' /\ (stale' = {} => m.chain[2] > lastTs[d])
          /\ UNCHANGED <<eph, table, keypairs, inbound, life, net, derived>>
<1> DEFINE m == worker[d][w].msg
<1>1. /\ worker[d][w].pc = "initiationChecked"
      /\ UNCHANGED <<eph, table, keypairs, inbound, life, net, derived>>
      /\ Work(d, w, [pc |-> "respond"])
  BY DEF ConsumeInitiation
<1>2. HsIs(d, "initiationConsumed", hs[d].li, m.sender, m.chain)
  BY DEF ConsumeInitiation, Types, HsTypes, HsOk, HsFields, HsIs
<1>3. m.chain[2] \in Nat
  BY <1>1, ChainsOf DEF Types, WorkTypes, WorkOk, IsInitiation
<1>4. /\ lastTs' \in [Devices -> Nat] /\ \A e \in Devices : e # d => lastTs'[e] = lastTs[e]
      /\ lastTs[d] <= lastTs'[d] /\ m.chain[2] <= lastTs'[d]
  <2>1. lastTs' = [lastTs EXCEPT ![d] = IF m.chain[2] > @ THEN m.chain[2] ELSE @]
    BY DEF ConsumeInitiation
  <2> HIDE DEF m
  <2> QED BY <1>3, <2>1 DEF Types
<1>5. stale \subseteq stale' /\ (stale' = {} => m.chain[2] > lastTs[d])
  BY DEF ConsumeInitiation
<1> QED BY <1>1, <1>2, <1>4, <1>5, WorkEffect DEF Types

\* The second half of ConsumeMessageResponse, part by part.
LEMMA ConsumeResponseEffect ==
    ASSUME Types, NEW d \in Devices, NEW w \in Workers[d], ConsumeResponse(d, w)
    PROVE LET m == worker[d][w].msg IN
          /\ worker[d][w].pc = "responseChecked"
          /\ HsIs(d, "responseConsumed", hs[d].li, m.sender, m.chain)
          /\ WorkIs(d, w, [pc |-> "responseConsumed"])
          /\ stale \subseteq stale'
          /\ stale' = {} => hs[d].st = "initiationCreated" /\ SamePrefix(hs[d].chain, m.chain)
          /\ UNCHANGED <<lastTs, eph, table, keypairs, inbound, life, net, derived>>
<1> DEFINE m == worker[d][w].msg
<1>1. /\ worker[d][w].pc = "responseChecked"
      /\ UNCHANGED <<lastTs, eph, table, keypairs, inbound, life, net, derived>>
      /\ Work(d, w, [pc |-> "responseConsumed"])
  BY DEF ConsumeResponse
<1>2. HsIs(d, "responseConsumed", hs[d].li, m.sender, m.chain)
  BY DEF ConsumeResponse, Types, HsTypes, HsOk, HsFields, HsIs
<1>3. SubSeq(m.chain, 1, 2) = <<m.chain[1], m.chain[2]>>
  BY <1>1, ChainPrefix DEF Types, WorkTypes, WorkOk, IsResponse
<1>4. /\ stale \subseteq stale'
      /\ stale' = {} => hs[d].st = "initiationCreated" /\ hs[d].chain = SubSeq(m.chain, 1, 2)
  BY DEF ConsumeResponse
<1>5. hs[d].chain = SubSeq(m.chain, 1, 2) => SamePrefix(hs[d].chain, m.chain)
  BY <1>3 DEF SamePrefix
<1> QED BY <1>1, <1>2, <1>4, <1>5, WorkEffect DEF Types

\* The keypair that BeginSymmetricSession makes.
KeypairOf(d) ==
    [key |-> hs[d].chain, init |-> hs[d].st = "responseConsumed", li |-> hs[d].li, ri |-> hs[d].ri]

Swapped(d, i) ==
    IF i = hs[d].li /\ table[d][i] # Free THEN KeypairEntry(KeypairOf(d)) ELSE table[d][i]

SwappedDeleted(d, is) ==
    TableAt(d) /\ \A i \in Indices : table'[d][i] = IF i \in is THEN Free ELSE Swapped(d, i)

\* BeginSymmetricSession, part by part: the initiator installs, the responder offers.
LEMMA BeginEffect ==
    ASSUME Types, NEW d \in Devices, Begin(d)
    PROVE LET ks == keypairs[d] IN
          /\ HsIs(d, "zeroed", NoIndex, hs[d].ri, NoChain)
          /\ \/ /\ hs[d].st = "responseConsumed"
                /\ KeysAre(d, KeypairOf(d), IF ks.next # NoKeypair THEN ks.next ELSE ks.current,
                           NoKeypair)
                /\ SwappedDeleted(d, InstallDeletes(ks))
             \/ /\ hs[d].st = "responseCreated"
                /\ KeysAre(d, ks.current, NoKeypair, KeypairOf(d))
                /\ SwappedDeleted(d, OfferDeletes(ks))
          /\ DOMAIN derived' = Devices
          /\ derived'[d] = derived[d] \union {KeypairOf(d)}
          /\ \A e \in Devices : e # d => derived'[e] = derived[e]
<1> DEFINE ks == keypairs[d]
           kp == KeypairOf(d)
           swapped == SwapIndex(table[d], hs[d].li, kp)
<1>1. /\ hs[d].st \in {"responseConsumed", "responseCreated"}
      /\ hs' = [hs EXCEPT ![d] = [@ EXCEPT !.st = "zeroed", !.li = NoIndex, !.chain = NoChain]]
      /\ hs[d].st = "responseConsumed" =>
           /\ keypairs' = [keypairs EXCEPT ![d] = Installed(@, kp)]
           /\ table' = [table EXCEPT ![d] = Delete(swapped, InstallDeletes(ks))]
      /\ hs[d].st # "responseConsumed" =>
           /\ keypairs' = [keypairs EXCEPT ![d] = Offered(@, kp)]
           /\ table' = [table EXCEPT ![d] = Delete(swapped, OfferDeletes(ks))]
      /\ derived' = [derived EXCEPT ![d] = @ \union {kp}]
  BY Zenon DEF Begin, KeypairOf
<1>2. HsIs(d, "zeroed", NoIndex, hs[d].ri, NoChain)
  BY <1>1 DEF Types, HsTypes, HsOk, HsFields, HsIs
<1>3. /\ DOMAIN derived' = Devices
      /\ derived'[d] = derived[d] \union {kp}
      /\ \A e \in Devices : e # d => derived'[e] = derived[e]
  <2> HIDE DEF kp
  <2> QED BY <1>1 DEF Types, KeyTypes
<1>4. ASSUME NEW is, table' = [table EXCEPT ![d] = Delete(swapped, is)]
      PROVE SwappedDeleted(d, is)
  <2>1. \A i \in Indices : swapped[i] = Swapped(d, i)
    BY DEF SwapIndex, Swapped
  <2> HIDE DEF swapped
  <2> QED BY <1>4, <2>1 DEF Types, TableTypes, SwappedDeleted, TableAt, Delete
<1>5. CASE hs[d].st = "responseConsumed"
  <2>1. KeysAre(d, kp, IF ks.next # NoKeypair THEN ks.next ELSE ks.current, NoKeypair)
    <3> HIDE DEF kp
    <3> QED BY <1>1, <1>5 DEF Types, KeyTypes, KeysAre, Installed
  <2> QED BY <1>1, <1>2, <1>3, <1>4, <1>5, <2>1
<1>6. CASE hs[d].st = "responseCreated"
  <2>1. KeysAre(d, ks.current, NoKeypair, kp)
    <3>1. DOMAIN keypairs = Devices /\ DOMAIN keypairs[d] = {"current", "previous", "next"}
      BY DEF Types, KeyTypes, KeysOk
    <3>2. keypairs' = [keypairs EXCEPT ![d] = [@ EXCEPT !.next = kp, !.previous = NoKeypair]]
      BY <1>1, <1>6 DEF Offered
    <3> HIDE DEF kp
    <3> QED BY <3>1, <3>2 DEF KeysAre
  <2> QED BY <1>1, <1>2, <1>3, <1>4, <1>6, <2>1
<1> QED BY <1>1, <1>5, <1>6

\* Handshake.Clear and the Delete of its index.
LEMMA ClearEffect ==
    ASSUME Types, NEW d \in Devices, ClearHandshake(d)
    PROVE HsIs(d, "zeroed", NoIndex, hs[d].ri, NoChain) /\ Deleted(d, {hs[d].li})
<1>1. HsIs(d, "zeroed", NoIndex, hs[d].ri, NoChain)
  BY DEF ClearHandshake, Types, HsTypes, HsOk, HsFields, HsIs
<1>2. Deleted(d, {hs[d].li})
  BY DeleteEffect, Zenon DEF ClearHandshake, Types
<1> QED BY <1>1, <1>2

\* ReceivedWithKeypair makes the keypair that was offered the current one.
LEMMA PromoteEffect ==
    ASSUME Types, NEW d \in Devices, Promote(d)
    PROVE LET ks == keypairs[d] IN
          /\ DOMAIN inbound' = Devices /\ inbound'[d] = NoKeypair
          /\ \A e \in Devices : e # d => inbound'[e] = inbound[e]
          /\ \/ /\ ks.next = inbound[d] /\ ks.next # NoKeypair
                /\ KeysAre(d, ks.next, ks.current, NoKeypair)
                /\ Deleted(d, {ks.previous.li})
             \/ UNCHANGED <<keypairs, table>>
          /\ UNCHANGED <<hs, lastTs, eph, worker, life, net, derived, stale>>
<1> DEFINE ks == keypairs[d]
<1>1. /\ inbound[d] # NoKeypair
      /\ inbound' = [inbound EXCEPT ![d] = NoKeypair]
      /\ ks.next = inbound[d] =>
           /\ keypairs' = [keypairs EXCEPT ![d] =
                [current |-> ks.next, previous |-> ks.current, next |-> NoKeypair]]
           /\ table' = [table EXCEPT ![d] = Delete(@, {ks.previous.li})]
      /\ ks.next # inbound[d] => UNCHANGED <<keypairs, table>>
      /\ UNCHANGED <<hs, lastTs, eph, worker, life, net, derived, stale>>
  BY Zenon DEF Promote
<1>2. /\ DOMAIN inbound' = Devices /\ inbound'[d] = NoKeypair
      /\ \A e \in Devices : e # d => inbound'[e] = inbound[e]
  BY <1>1 DEF Types, KeyTypes
<1>3. CASE ks.next = inbound[d]
  <2>1. KeysAre(d, ks.next, ks.current, NoKeypair)
    BY <1>1, <1>3 DEF Types, KeyTypes, KeysAre
  <2>2. Deleted(d, {ks.previous.li})
    BY <1>1, <1>3, DeleteEffect DEF Types
  <2> QED BY <1>1, <1>2, <1>3, <2>1, <2>2
<1> QED BY <1>1, <1>2, <1>3

\* ZeroAndFlushAll deletes every keypair with its index.
LEMMA ZeroKeypairsEffect ==
    ASSUME Types, NEW d \in Devices, ZeroKeypairs(d)
    PROVE LET ks == keypairs[d] IN
          /\ KeysAre(d, NoKeypair, NoKeypair, NoKeypair)
          /\ Deleted(d, {ks.previous.li, ks.current.li, ks.next.li})
          /\ UNCHANGED <<hs, lastTs, eph, worker, inbound, net, derived, stale>>
<1>1. KeysAre(d, NoKeypair, NoKeypair, NoKeypair)
  BY DEF ZeroKeypairs, NoKeypairs, Types, KeyTypes, KeysAre
<1>2. Deleted(d, {keypairs[d].previous.li, keypairs[d].current.li, keypairs[d].next.li})
  BY DeleteEffect, Zenon DEF ZeroKeypairs, Types
<1> QED BY <1>1, <1>2 DEF ZeroKeypairs

-----------------------------------------------------------------------------
(* The types. *)

\* The steps that leave the handshake and the keys alone.
Aside == UNCHANGED <<hs, lastTs, eph, table, keypairs, derived, stale>>

SideStep(d) ==
    \/ SendData(d) \/ StopBegin(d) \/ Start(d) \/ \E m \in net : ReceiveData(d, m)
    \/ \E w \in Workers[d] :
         WorkerFails(d, w) \/ \E m \in net : CheckInitiation(d, w, m) \/ CheckResponse(d, w, m)

KeyStep(d) ==
    \/ SendInitiation(d) \/ Promote(d) \/ ZeroKeypairs(d) \/ ZeroHandshake(d) \/ Expire(d)
    \/ \E w \in Workers[d] : \/ ConsumeInitiation(d, w) \/ CreateResponse(d, w)
                             \/ ConsumeResponse(d, w) \/ BeginSession(d, w)

\* Every step is one of the two kinds, of one device.
LEMMA Steps == Next => \E d \in Devices : SideStep(d) \/ KeyStep(d)
  BY Zenon DEF Next, SideStep, KeyStep

\* The first kind leaves handshakes, keypairs and tables alone.
LEMMA SideStepEffect == ASSUME NEW d \in Devices, SideStep(d) PROVE Aside
  BY Zenon DEF SideStep, Aside, SendData, StopBegin, Start, ReceiveData, WorkerFails, CheckInitiation,
         CheckResponse

\* The initial state is well typed.
LEMMA InitTypes == Init => Types
<1> SUFFICES ASSUME Init PROVE Types
  OBVIOUS
<1>1. HsTypes
  BY DEF Init, HsTypes, HsOk, HsFields, Zeroed
<1>2. KeyTypes
  BY Zenon DEF Init, KeyTypes, KeysOk, IsKeypair, NoKeypairs, NoKeypair
<1>3. TableTypes
  BY DEF Init, TableTypes, TableOk, IsSlot, Free
<1>4. WorkTypes
  BY DEF Init, WorkTypes, WorkOk, Idle
<1> QED BY <1>1, <1>2, <1>3, <1>4 DEF Types, Init

\* Handshakes: only the one that changes is to be looked at.
LEMMA HsTypesKept ==
    ASSUME HsTypes, NEW d \in Devices, DOMAIN hs' = Devices,
           \A e \in Devices : e # d => hs'[e] = hs[e], HsOk(d)'
    PROVE HsTypes'
  BY DEF HsTypes, HsOk

\* Tables: only the one that changes is to be looked at.
LEMMA TableTypesKept ==
    ASSUME TableTypes, NEW d \in Devices, TableAt(d),
           \A i \in Indices : /\ IsSlot(table'[d][i])
                              /\ table'[d][i].st = "keypair" => IsKeypair(table'[d][i].kp)
    PROVE TableTypes'
<1> SUFFICES ASSUME NEW e \in Devices PROVE TableOk(e)'
  BY DEF TableTypes, TableAt
<1>1. CASE e = d
  BY <1>1 DEF TableOk, TableAt
<1>2. CASE e # d
  BY <1>2 DEF TableTypes, TableOk, TableAt
<1> QED BY <1>1, <1>2

\* A table keeps its type when indices are deleted,
LEMMA DeletedTypes ==
    ASSUME TableTypes, NEW d \in Devices, NEW is, Deleted(d, is) PROVE TableTypes'
<1>1. \A i \in Indices : /\ IsSlot(table'[d][i])
                         /\ table'[d][i].st = "keypair" => IsKeypair(table'[d][i].kp)
  <2> SUFFICES ASSUME NEW i \in Indices
               PROVE /\ IsSlot(table'[d][i])
                     /\ table'[d][i].st = "keypair" => IsKeypair(table'[d][i].kp)
    OBVIOUS
  <2>1. table'[d][i] = Free \/ table'[d][i] = table[d][i]
    BY DEF Deleted
  <2> QED BY <2>1 DEF TableTypes, TableOk, IsSlot, Free
<1> QED BY <1>1, TableTypesKept DEF Deleted

\* when an index is drawn,
LEMMA ReindexedTypes ==
    ASSUME TableTypes, NEW d \in Devices, NEW i, Reindexed(d, i) PROVE TableTypes'
<1>1. \A j \in Indices : /\ IsSlot(table'[d][j])
                         /\ table'[d][j].st = "keypair" => IsKeypair(table'[d][j].kp)
  <2> SUFFICES ASSUME NEW j \in Indices
               PROVE /\ IsSlot(table'[d][j])
                     /\ table'[d][j].st = "keypair" => IsKeypair(table'[d][j].kp)
    OBVIOUS
  <2>1. table'[d][j] \in {Free, HandshakeEntry, table[d][j]}
    BY DEF Reindexed
  <2> QED BY <2>1 DEF TableTypes, TableOk, IsSlot, Free, HandshakeEntry
<1> QED BY <1>1, TableTypesKept DEF Reindexed

\* and when an index goes from the handshake to a keypair.
LEMMA SwappedTypes ==
    ASSUME TableTypes, NEW d \in Devices, NEW is, SwappedDeleted(d, is) PROVE TableTypes'
<1>0. IsKeypair(KeypairOf(d))
  BY DEF IsKeypair, KeypairOf
<1>1. \A j \in Indices : /\ IsSlot(table'[d][j])
                         /\ table'[d][j].st = "keypair" => IsKeypair(table'[d][j].kp)
  <2> SUFFICES ASSUME NEW j \in Indices
               PROVE /\ IsSlot(table'[d][j])
                     /\ table'[d][j].st = "keypair" => IsKeypair(table'[d][j].kp)
    OBVIOUS
  <2>1. table'[d][j] \in {Free, KeypairEntry(KeypairOf(d)), table[d][j]}
    BY DEF SwappedDeleted, Swapped
  <2> QED BY <1>0, <2>1 DEF TableTypes, TableOk, IsSlot, Free, KeypairEntry
<1> QED BY <1>1, TableTypesKept DEF SwappedDeleted

\* Keypairs: only those of one device are to be looked at.
LEMMA KeyTypesKept ==
    ASSUME KeyTypes, NEW d \in Devices, NEW c, NEW p, NEW n, KeysAre(d, c, p, n),
           IsKeypair(c), IsKeypair(p), IsKeypair(n),
           DOMAIN inbound' = Devices, \A e \in Devices : inbound'[e] \in {inbound[e], NoKeypair},
           UNCHANGED derived
    PROVE KeyTypes'
<1> SUFFICES ASSUME NEW e \in Devices PROVE KeysOk(e)'
  BY DEF KeyTypes, KeysAre
<1>1. IsKeypair(NoKeypair)
  BY DEF IsKeypair, NoKeypair
<1>2. IsKeypair(inbound[e])'
  BY <1>1 DEF KeyTypes, KeysOk, IsKeypair
<1>3. CASE e = d
  BY <1>2, <1>3 DEF KeyTypes, KeysOk, KeysAre, IsKeypair
<1>4. CASE e # d
  BY <1>2, <1>4 DEF KeyTypes, KeysOk, KeysAre, IsKeypair
<1> QED BY <1>3, <1>4

\* Messages are kept, so a worker's may be left where it is.
LEMMA WorkTypesKept ==
    ASSUME WorkTypes, NEW d \in Devices, NEW w \in Workers[d], NEW job, WorkIs(d, w, job),
           net \subseteq net', \A m \in net' : IsMessage(m), WorkOk(d, w)'
    PROVE WorkTypes'
<1> SUFFICES ASSUME NEW e \in Devices, NEW v \in Workers[e] PROVE WorkOk(e, v)'
  BY DEF WorkTypes, WorkIs
<1>1. CASE <<e, v>> = <<d, w>>
  BY <1>1
<1>2. CASE <<e, v>> # <<d, w>>
  BY <1>2 DEF WorkTypes, WorkIs, WorkOk
<1> QED BY <1>1, <1>2

\* Jobs and messages keep their types when no message or job is new.
LEMMA NetTypesKept ==
    ASSUME WorkTypes, UNCHANGED worker, net \subseteq net', \A m \in net' : IsMessage(m)
    PROVE WorkTypes'
  BY DEF WorkTypes, WorkOk

\* The steps of the first kind keep the types.
LEMMA SideStepTypes ==
    ASSUME Types, NEW d \in Devices, SideStep(d) PROVE Types'
<1>1. Aside
  BY SideStepEffect
<1>2. lastTs' \in [Devices -> Nat] /\ eph' \in [Devices -> Nat] /\ HsTypes' /\ TableTypes'
  BY <1>1 DEF Types, Aside, HsTypes, HsOk, TableTypes, TableOk
<1>3. ASSUME UNCHANGED inbound PROVE KeyTypes'
  BY <1>1, <1>3 DEF Types, Aside, KeyTypes, KeysOk
<1>4. CASE SendData(d)
  <2>1. \A m \in net' : IsMessage(m)
    BY <1>4, Others DEF SendData, Types, WorkTypes, IsMessage, IsData
  <2> QED BY <1>2, <1>3, <1>4, <2>1, NetTypesKept DEF SendData, Types
<1>5. CASE StopBegin(d) \/ Start(d)
  BY <1>2, <1>3, <1>5, NetTypesKept DEF StopBegin, Start, Types, WorkTypes
<1>6. CASE \E m \in net : ReceiveData(d, m)
  <2>1. PICK m \in net : ReceiveData(d, m)
    BY <1>6
  <2>2. IsKeypair(table[d][m.receiver].kp)
    BY <2>1 DEF ReceiveData, Types, TableTypes, TableOk
  <2>3. DOMAIN inbound' = Devices /\ \A e \in Devices : IsKeypair(inbound'[e])
    BY <2>1, <2>2 DEF ReceiveData, Types, KeyTypes, KeysOk
  <2>4. KeyTypes'
    BY <1>1, <2>3 DEF Types, Aside, KeyTypes, KeysOk
  <2> QED BY <1>2, <2>1, <2>4, NetTypesKept DEF ReceiveData, Types, WorkTypes
<1>7. ASSUME NEW w \in Workers[d], WorkerFails(d, w) PROVE Types'
  <2>1. WorkIs(d, w, Idle) /\ UNCHANGED <<inbound, net>>
    BY <1>7, WorkEffect DEF WorkerFails, Types
  <2>2. WorkOk(d, w)'
    BY <2>1 DEF WorkIs, WorkOk, Idle
  <2> QED BY <1>2, <1>3, <2>1, <2>2, WorkTypesKept DEF Types, WorkTypes
<1>8. ASSUME NEW w \in Workers[d], NEW m \in net, CheckInitiation(d, w, m) PROVE Types'
  <2>1. WorkIs(d, w, [pc |-> "initiationChecked", msg |-> m]) /\ UNCHANGED <<inbound, net>>
    BY <1>8, WorkEffect DEF CheckInitiation, Types
  <2>2. IsInitiation(m) /\ m.to = d
    BY <1>8 DEF CheckInitiation, Types, WorkTypes, IsMessage, IsResponse, IsData
  <2>3. WorkOk(d, w)'
    BY <2>1, <2>2 DEF WorkIs, WorkOk
  <2> QED BY <1>2, <1>3, <2>1, <2>3, WorkTypesKept DEF Types, WorkTypes
<1>9. ASSUME NEW w \in Workers[d], NEW m \in net, CheckResponse(d, w, m) PROVE Types'
  <2>1. WorkIs(d, w, [pc |-> "responseChecked", msg |-> m]) /\ UNCHANGED <<inbound, net>>
    BY <1>9, WorkEffect DEF CheckResponse, Types
  <2>2. IsResponse(m) /\ m.to = d
    BY <1>9 DEF CheckResponse, Types, WorkTypes, IsMessage, IsInitiation, IsData
  <2>3. WorkOk(d, w)'
    BY <2>1, <2>2 DEF WorkIs, WorkOk
  <2> QED BY <1>2, <1>3, <2>1, <2>3, WorkTypesKept DEF Types, WorkTypes
<1> QED BY <1>4, <1>5, <1>6, <1>7, <1>8, <1>9 DEF SideStep

\* So does BeginSymmetricSession.
LEMMA BeginTypes ==
    ASSUME Types, NEW d \in Devices, Begin(d), UNCHANGED inbound
    PROVE HsTypes' /\ KeyTypes' /\ TableTypes'
<1> DEFINE ks == keypairs[d]
           kp == KeypairOf(d)
<1>1. IsKeypair(kp) /\ kp.key = hs[d].chain /\ kp.init = (hs[d].st = "responseConsumed")
  BY DEF KeypairOf, IsKeypair
<1>2. /\ HsIs(d, "zeroed", NoIndex, hs[d].ri, NoChain)
      /\ \E c, p, n \in {ks.current, ks.next, NoKeypair, kp} : KeysAre(d, c, p, n)
      /\ \E is : SwappedDeleted(d, is)
      /\ hs[d].st \in {"responseConsumed", "responseCreated"}
      /\ DOMAIN derived' = Devices
      /\ derived'[d] = derived[d] \union {kp}
      /\ \A e \in Devices : e # d => derived'[e] = derived[e]
  <2> HIDE DEF kp
  <2> QED BY BeginEffect DEF kp
<1>3. HsTypes'
  BY <1>2, HsTypesKept DEF Types, HsIs, HsOk, HsFields
<1>4. TableTypes'
  BY <1>2, SwappedTypes DEF Types
<1>5. kp.key \in Responses /\ kp.key[1] = IF kp.init THEN d ELSE Other(d)
  BY <1>1, <1>2, Zenon DEF Types, HsTypes, HsOk
<1> HIDE DEF kp
<1>6. KeyTypes'
  <2> SUFFICES ASSUME NEW e \in Devices PROVE KeysOk(e)'
    BY <1>2 DEF Types, KeyTypes, KeysAre
  <2>0. IsKeypair(NoKeypair)
    BY DEF IsKeypair, NoKeypair
  <2>1. CASE e = d
    <3>1. IsKeypair(inbound'[e]) /\ IsKeypair(ks.current) /\ IsKeypair(ks.next)
      BY <2>1 DEF Types, KeyTypes, KeysOk
    <3>2. \A k \in derived'[e] : /\ IsKeypair(k) /\ k.key \in Responses
                                 /\ k.key[1] = IF k.init THEN d ELSE Other(d)
      BY <1>1, <1>2, <1>5, <2>1 DEF Types, KeyTypes, KeysOk
    <3>3. PICK c, p, n \in {ks.current, ks.next, NoKeypair, kp} : KeysAre(d, c, p, n)
      BY <1>2
    <3>4. IsKeypair(c) /\ IsKeypair(p) /\ IsKeypair(n)
      BY <1>1, <2>0, <3>1
    <3> QED BY <2>1, <3>1, <3>2, <3>3, <3>4 DEF KeysAre, KeysOk
  <2>2. CASE e # d
    BY <1>2, <2>2 DEF Types, KeyTypes, KeysOk, KeysAre
  <2> QED BY <2>1, <2>2
<1> QED BY <1>3, <1>4, <1>6

\* So do the steps of the second kind.
LEMMA KeyStepTypes ==
    ASSUME Types, NEW d \in Devices, KeyStep(d) PROVE Types'
<1>0. IsKeypair(NoKeypair)
  BY DEF IsKeypair, NoKeypair
<1>s. ASSUME UNCHANGED <<keypairs, inbound, derived>> PROVE KeyTypes'
  BY <1>s DEF Types, KeyTypes, KeysOk
<1>1. CASE SendInitiation(d)
  <2>1. PICK i \in Indices :
            /\ Drew(d) /\ Reindexed(d, i)
            /\ HsIs(d, "initiationCreated", i, hs[d].ri, <<d, eph'[d]>>)
            /\ net' = net \union {InitiationOf(d, i)}
            /\ UNCHANGED <<lastTs, keypairs, worker, inbound, life, derived, stale>>
    BY <1>1, SendInitiationEffect
  <2>2. <<d, eph'[d]>> \in Initiations /\ eph' \in [Devices -> Nat]
    BY <2>1 DEF Drew, Initiations
  <2>3. HsTypes'
    BY <2>1, <2>2, HsTypesKept DEF Types, HsIs, HsOk, HsFields
  <2>4. IsInitiation(InitiationOf(d, i))
    BY <2>2, Others DEF InitiationOf, IsInitiation
  <2>5. WorkTypes'
    <3>1. \A m \in net' : IsMessage(m)
      BY <2>1, <2>4 DEF Types, WorkTypes, IsMessage
    <3> QED BY <2>1, <3>1, NetTypesKept DEF Types
  <2> QED BY <1>s, <2>1, <2>2, <2>3, <2>5, ReindexedTypes DEF Types
<1>2. CASE Promote(d)
  <2>1. TableTypes' /\ KeyTypes'
    <3>1. /\ DOMAIN inbound' = Devices
          /\ \A e \in Devices : inbound'[e] \in {inbound[e], NoKeypair}
          /\ UNCHANGED derived
      BY <1>2, PromoteEffect, Zenon
    <3>2. IsKeypair(keypairs[d].next) /\ IsKeypair(keypairs[d].current)
      BY DEF Types, KeyTypes, KeysOk
    <3>3. CASE UNCHANGED <<keypairs, table>>
      BY <1>0, <3>1, <3>3 DEF Types, KeyTypes, KeysOk, TableTypes, TableOk
    <3>4. CASE /\ KeysAre(d, keypairs[d].next, keypairs[d].current, NoKeypair)
               /\ Deleted(d, {keypairs[d].previous.li})
      <4>1. TableTypes'
        BY <3>4, DeletedTypes DEF Types
      <4> QED BY <1>0, <3>1, <3>2, <3>4, <4>1, KeyTypesKept DEF Types
    <3> QED BY <1>2, <3>3, <3>4, PromoteEffect, Zenon
  <2>2. UNCHANGED <<hs, lastTs, eph, worker, net>>
    BY <1>2, PromoteEffect, Zenon
  <2> QED BY <2>1, <2>2, NetTypesKept DEF Types, HsTypes, HsOk, WorkTypes
<1>3. CASE ZeroKeypairs(d)
  <2>1. /\ KeysAre(d, NoKeypair, NoKeypair, NoKeypair)
        /\ \E is : Deleted(d, is)
        /\ UNCHANGED <<hs, lastTs, eph, worker, inbound, net, derived>>
    BY <1>3, ZeroKeypairsEffect, Zenon
  <2>2. KeyTypes'
    BY <1>0, <2>1, KeyTypesKept DEF Types, KeyTypes
  <2>3. TableTypes'
    BY <2>1, DeletedTypes DEF Types
  <2> QED BY <2>1, <2>2, <2>3, NetTypesKept DEF Types, HsTypes, HsOk, WorkTypes
<1>4. CASE ZeroHandshake(d) \/ Expire(d)
  <2>1. ClearHandshake(d) /\ UNCHANGED <<lastTs, eph, keypairs, worker, inbound, net, derived>>
    BY <1>4 DEF ZeroHandshake, Expire
  <2>2. HsIs(d, "zeroed", NoIndex, hs[d].ri, NoChain) /\ \E is : Deleted(d, is)
    BY <2>1, ClearEffect, Zenon
  <2>3. HsTypes'
    BY <2>2, HsTypesKept DEF Types, HsIs, HsOk, HsFields
  <2>4. TableTypes'
    BY <2>2, DeletedTypes DEF Types
  <2> QED BY <1>s, <2>1, <2>3, <2>4, NetTypesKept DEF Types, WorkTypes
<1>5. ASSUME NEW w \in Workers[d], ConsumeInitiation(d, w) PROVE Types'
  <2> DEFINE m == worker[d][w].msg
  <2>1. /\ worker[d][w].pc = "initiationChecked"
        /\ HsIs(d, "initiationConsumed", hs[d].li, m.sender, m.chain)
        /\ WorkIs(d, w, [pc |-> "respond"]) /\ lastTs' \in [Devices -> Nat]
        /\ UNCHANGED <<eph, table, keypairs, inbound, life, net, derived>>
    BY <1>5, ConsumeInitiationEffect
  <2>2. IsInitiation(m) /\ m.to = d
    BY <2>1 DEF Types, WorkTypes, WorkOk
  <2>3. WorkOk(d, w)'
    <3>1. worker'[d][w] = [pc |-> "respond"]
      BY <2>1, Zenon DEF WorkIs
    <3> QED BY <3>1 DEF WorkOk
  <2>4. HsOk(d)'
    BY <2>1, <2>2 DEF Types, HsTypes, HsIs, HsOk, IsInitiation
  <2>5. HsTypes'
    BY <2>1, <2>4, HsTypesKept DEF Types, HsIs
  <2>6. WorkTypes'
    BY <2>1, <2>3, WorkTypesKept DEF Types, WorkTypes
  <2> QED BY <1>s, <2>1, <2>5, <2>6 DEF Types, TableTypes, TableOk
<1>6. ASSUME NEW w \in Workers[d], ConsumeResponse(d, w) PROVE Types'
  <2> DEFINE m == worker[d][w].msg
  <2>1. /\ worker[d][w].pc = "responseChecked"
        /\ HsIs(d, "responseConsumed", hs[d].li, m.sender, m.chain)
        /\ WorkIs(d, w, [pc |-> "responseConsumed"])
        /\ UNCHANGED <<lastTs, eph, table, keypairs, inbound, life, net, derived>>
    BY <1>6, ConsumeResponseEffect
  <2>2. IsResponse(m) /\ m.to = d
    BY <2>1 DEF Types, WorkTypes, WorkOk
  <2>3. WorkOk(d, w)'
    <3>1. worker'[d][w] = [pc |-> "responseConsumed"]
      BY <2>1, Zenon DEF WorkIs
    <3> QED BY <3>1 DEF WorkOk
  <2>4. HsOk(d)'
    BY <2>1, <2>2 DEF Types, HsTypes, HsIs, HsOk, IsResponse
  <2>5. HsTypes'
    BY <2>1, <2>4, HsTypesKept DEF Types, HsIs
  <2>6. WorkTypes'
    BY <2>1, <2>3, WorkTypesKept DEF Types, WorkTypes
  <2> QED BY <1>s, <2>1, <2>5, <2>6 DEF Types, TableTypes, TableOk
<1>7. ASSUME NEW w \in Workers[d], CreateResponse(d, w) PROVE Types'
  <2>1. PICK i \in Indices :
            /\ worker[d][w].pc = "respond" /\ hs[d].st = "initiationConsumed"
            /\ Drew(d) /\ Reindexed(d, i)
            /\ HsIs(d, "responseCreated", i, hs[d].ri, Append(hs[d].chain, eph'[d]))
            /\ WorkIs(d, w, [pc |-> "responseCreated", msg |-> ResponseOf(d, i)])
            /\ UNCHANGED <<lastTs, keypairs, inbound, life, net, derived, stale>>
    BY <1>7, CreateResponseEffect, Zenon
  <2>2. PICK c : c = Append(hs[d].chain, eph'[d])
    BY Zenon
  <2>3. c \in Responses /\ c[1] = Other(d)
    <3>1. hs[d].chain \in Initiations /\ hs[d].chain[1] = Other(d) /\ eph'[d] \in Nat
      BY <2>1 DEF Types, HsTypes, HsOk, Drew
    <3> QED BY <2>2, <3>1, ChainExtends
  <2>4. HsOk(d)'
    BY <2>1, <2>2, <2>3 DEF HsIs, HsOk
  <2>5. HsTypes'
    BY <2>1, <2>4, HsTypesKept DEF Types, HsIs
  <2>6. ResponseOf(d, i).type = "response" /\ ResponseOf(d, i).to = Other(d) /\ ResponseOf(d, i).chain = c
    BY <2>2 DEF ResponseOf
  <2>7. IsResponse(ResponseOf(d, i))
    BY <2>3, <2>6, Others DEF IsResponse
  <2>8. WorkOk(d, w)'
    <3>1. worker'[d][w] = [pc |-> "responseCreated", msg |-> ResponseOf(d, i)]
      BY <2>1, Zenon DEF WorkIs
    <3>2. worker'[d][w].pc = "responseCreated" /\ worker'[d][w].msg = ResponseOf(d, i)
      BY <3>1
    <3> QED BY <2>6, <2>7, <3>2 DEF WorkOk
  <2>9. WorkTypes'
    BY <2>1, <2>8, WorkTypesKept DEF Types, WorkTypes
  <2>10. TableTypes' /\ eph' \in [Devices -> Nat]
    BY <2>1, ReindexedTypes DEF Types, Drew
  <2> QED BY <1>s, <2>1, <2>5, <2>9, <2>10 DEF Types
<1>8. ASSUME NEW w \in Workers[d], BeginSession(d, w) PROVE Types'
  <2>1. /\ Begin(d) /\ Work(d, w, Idle) /\ UNCHANGED <<lastTs, eph, inbound>>
        /\ net' = IF worker[d][w].pc = "responseCreated" THEN net \union {worker[d][w].msg} ELSE net
    BY <1>8 DEF BeginSession
  <2>2. WorkIs(d, w, Idle)
    BY <2>1, WorkEffect DEF Types
  <2>3. WorkOk(d, w)'
    BY <2>2 DEF WorkIs, WorkOk, Idle
  <2>4. net \subseteq net' /\ \A m \in net' : IsMessage(m)
    BY <2>1 DEF Types, WorkTypes, WorkOk, IsMessage
  <2>5. WorkTypes'
    BY <2>2, <2>3, <2>4, WorkTypesKept DEF Types
  <2> QED BY <2>1, <2>5, BeginTypes DEF Types
<1> QED BY <1>1, <1>2, <1>3, <1>4, <1>5, <1>6, <1>7, <1>8 DEF KeyStep

\* So does every step.
LEMMA TypesStep == Types /\ [Next]_vars => Types'
<1> SUFFICES ASSUME Types, [Next]_vars PROVE Types'
  OBVIOUS
<1>1. CASE UNCHANGED vars
  BY <1>1, NetTypesKept, Zenon DEF vars, Types, HsTypes, HsOk, KeyTypes, KeysOk, TableTypes, TableOk,
         WorkTypes
<1> QED BY <1>1, Steps, SideStepTypes, KeyStepTypes

-----------------------------------------------------------------------------
(***************************************************************************)
(* WgSession, on one device: what the index table, the keypairs and the    *)
(* handshake have to do with each other; and that a responder waits until  *)
(* the initiator has the key.                                              *)
(***************************************************************************)

\* What the table has is known to the peer, what the peer has is in the table.
NoOrphan(d) ==
    \A i \in Indices :
      /\ table[d][i].st = "keypair" => table[d][i].kp \in Held(d) /\ table[d][i].kp.li = i
      /\ table[d][i].st = "handshake" => hs[d].li = i

Reachable(d) ==
    \A kp \in Held(d) : kp.li \in Indices /\ table[d][kp.li] = KeypairEntry(kp)

\* The handshake under way has its index, and no keypair is held twice.
SlotOk(d) ==
    /\ hs[d].st \in {"initiationCreated", "responseCreated", "responseConsumed"}
         => hs[d].li \in Indices
    /\ hs[d].li \in Indices => table[d][hs[d].li] = HandshakeEntry
    /\ keypairs[d].current = keypairs[d].previous => keypairs[d].current = NoKeypair
    /\ keypairs[d].current = keypairs[d].next => keypairs[d].current = NoKeypair
    /\ keypairs[d].previous = keypairs[d].next => keypairs[d].next = NoKeypair

\* The second part holds as long as nothing was applied that had been overtaken.
TableInv ==
    \A d \in Devices : NoOrphan(d) /\ (stale = {} => SlotOk(d) /\ Reachable(d))

\* The other side has derived the key as the initiator.
Confirmed(d, key) == \E k \in derived[Other(d)] : k.key = key /\ k.init

KeysConfirmed(d) ==
    /\ Held(d) \subseteq derived[d]
    /\ inbound[d] # NoKeypair /\ ~inbound[d].init => Confirmed(d, inbound[d].key)
    /\ keypairs[d].current # NoKeypair /\ ~keypairs[d].current.init =>
         Confirmed(d, keypairs[d].current.key)

DataConfirmed(m) ==
    m.type = "data" =>
      /\ m.init \in BOOLEAN
      /\ m.init => Confirmed(m.to, m.chain)
      /\ ~m.init => \E kp \in derived[m.to] : kp.key = m.chain /\ kp.init

ConfirmInv ==
    (\A d \in Devices : KeysConfirmed(d)) /\ (\A m \in net : DataConfirmed(m))

-----------------------------------------------------------------------------
(* The index table. *)

\* A new index for the handshake disturbs no keypair.
LEMMA ReindexedTable ==
    ASSUME Types, NEW d \in Devices, NoOrphan(d), NEW i, Reindexed(d, i), hs'[d].li = i,
           UNCHANGED keypairs
    PROVE /\ NoOrphan(d)'
          /\ SlotOk(d) /\ Reachable(d) => SlotOk(d)' /\ Reachable(d)'
<1>1. NoOrphan(d)'
  BY DEF NoOrphan, Reindexed, Held, HandshakeEntry, Free
<1>2. ASSUME SlotOk(d), Reachable(d) PROVE SlotOk(d)'
  BY <1>2 DEF SlotOk, Reindexed
<1>3. ASSUME SlotOk(d), Reachable(d) PROVE Reachable(d)'
  <2> SUFFICES ASSUME NEW k \in Held(d)
               PROVE k.li \in Indices /\ table'[d][k.li] = KeypairEntry(k)
    BY DEF Reachable, Held
  <2>1. k.li \in Indices /\ table[d][k.li] = KeypairEntry(k)
    BY <1>3 DEF Reachable
  <2>2. k.li # i /\ k.li # hs[d].li
    BY <1>3, <2>1 DEF SlotOk, Reindexed, HandshakeEntry, KeypairEntry, Free
  <2> QED BY <2>1, <2>2 DEF Reindexed
<1> QED BY <1>1, <1>2, <1>3

\* Nor does a handshake that is cleared with its index.
LEMMA ClearedTable ==
    ASSUME Types, NEW d \in Devices, NoOrphan(d), Deleted(d, {hs[d].li}),
           hs'[d].li = NoIndex, hs'[d].st = "zeroed", UNCHANGED keypairs
    PROVE /\ NoOrphan(d)'
          /\ SlotOk(d) /\ Reachable(d) => SlotOk(d)' /\ Reachable(d)'
<1>1. NoOrphan(d)'
  BY DEF NoOrphan, Deleted, Held, Free
<1>2. ASSUME SlotOk(d), Reachable(d) PROVE SlotOk(d)'
  BY <1>2, SessionAssumption DEF SlotOk
<1>3. ASSUME SlotOk(d), Reachable(d) PROVE Reachable(d)'
  <2> SUFFICES ASSUME NEW k \in Held(d)
               PROVE k.li \in Indices /\ table'[d][k.li] = KeypairEntry(k)
    BY DEF Reachable, Held
  <2>1. k.li \in Indices /\ table[d][k.li] = KeypairEntry(k)
    BY <1>3 DEF Reachable
  <2>2. k.li # hs[d].li
    BY <1>3, <2>1 DEF SlotOk, HandshakeEntry, KeypairEntry
  <2> QED BY <2>1, <2>2 DEF Deleted
<1> QED BY <1>1, <1>2, <1>3

\* Two keypairs that are in the table are at two indices.
LEMMA Apart ==
    ASSUME NEW d \in Devices, Reachable(d), NEW k \in Held(d), NEW l \in Held(d), k # l
    PROVE k.li # l.li
<1>1. table[d][k.li] = KeypairEntry(k) /\ table[d][l.li] = KeypairEntry(l)
  BY DEF Reachable
<1>2. KeypairEntry(k).kp = k /\ KeypairEntry(l).kp = l
  BY DEF KeypairEntry
<1> QED BY <1>1, <1>2

\* The index of the handshake is not that of a keypair.
LEMMA HandshakeApart ==
    ASSUME NEW d \in Devices, Reachable(d), SlotOk(d), hs[d].li \in Indices,
           NEW k \in {keypairs[d].previous, keypairs[d].current, keypairs[d].next}
    PROVE hs[d].li # k.li
<1>1. CASE k = NoKeypair
  BY <1>1, SessionAssumption DEF NoKeypair
<1>2. CASE k # NoKeypair
  <2>1. k \in Held(d)
    BY <1>2 DEF Held
  <2>2. table[d][k.li] = KeypairEntry(k) /\ table[d][hs[d].li] = HandshakeEntry
    BY <2>1 DEF Reachable, SlotOk
  <2>3. KeypairEntry(k) # HandshakeEntry
    BY DEF KeypairEntry, HandshakeEntry
  <2> QED BY <2>2, <2>3
<1> QED BY <1>1, <1>2

\* The keypairs a device holds after they were set.
LEMMA HeldIs ==
    ASSUME NEW d \in Devices, NEW c, NEW p, NEW n, KeysAre(d, c, p, n)
    PROVE Held(d)' = {c, p, n} \ {NoKeypair}
  BY DEF Held, KeysAre

\* A promotion deletes the previous keypair with its index, and no other.
LEMMA PromotedTable ==
    ASSUME Types, NEW d \in Devices, NoOrphan(d), UNCHANGED hs,
           keypairs[d].next # NoKeypair,
           KeysAre(d, keypairs[d].next, keypairs[d].current, NoKeypair),
           Deleted(d, {keypairs[d].previous.li})
    PROVE /\ NoOrphan(d)'
          /\ SlotOk(d) /\ Reachable(d) => SlotOk(d)' /\ Reachable(d)'
<1>0. Held(d)' = {keypairs[d].next, keypairs[d].current} \ {NoKeypair}
  <2>1. Held(d)' = {keypairs[d].next, keypairs[d].current, NoKeypair} \ {NoKeypair}
    BY HeldIs
  <2> QED BY <2>1
<1>1. NoOrphan(d)'
  <2> SUFFICES ASSUME NEW i \in Indices, table'[d][i] # Free
               PROVE /\ table'[d][i].st = "keypair" =>
                          table'[d][i].kp \in Held(d)' /\ table'[d][i].kp.li = i
                     /\ table'[d][i].st = "handshake" => hs[d].li = i
    BY DEF NoOrphan, Free
  <2>1. table'[d][i] = table[d][i] /\ i # keypairs[d].previous.li
    BY DEF Deleted
  <2> QED BY <1>0, <2>1, Zenon DEF NoOrphan, Held
<1>2. ASSUME SlotOk(d), Reachable(d) PROVE Reachable(d)'
  <2> SUFFICES ASSUME NEW k \in {keypairs[d].next, keypairs[d].current} \ {NoKeypair}
               PROVE k.li \in Indices /\ table'[d][k.li] = KeypairEntry(k)
    BY <1>0 DEF Reachable
  <2>1. k \in Held(d) /\ k # keypairs[d].previous
    BY <1>2 DEF Held, SlotOk
  <2>2. k.li # keypairs[d].previous.li
    <3>1. CASE keypairs[d].previous = NoKeypair
      BY <1>2, <2>1, <3>1, SessionAssumption DEF Reachable, NoKeypair
    <3>2. CASE keypairs[d].previous # NoKeypair
      BY <1>2, <2>1, <3>2, Apart DEF Held
    <3> QED BY <3>1, <3>2
  <2> QED BY <1>2, <2>1, <2>2 DEF Reachable, Deleted
<1>3. ASSUME SlotOk(d), Reachable(d) PROVE SlotOk(d)'
  <2>1. hs[d].li \in Indices => table'[d][hs[d].li] = HandshakeEntry
    BY <1>3, HandshakeApart DEF SlotOk, Deleted
  <2> QED BY <1>3, <2>1 DEF SlotOk, KeysAre
<1> QED BY <1>1, <1>2, <1>3

\* ZeroAndFlushAll leaves no keypair and none of their indices.
LEMMA ZeroedTable ==
    ASSUME Types, NEW d \in Devices, NoOrphan(d), UNCHANGED hs,
           KeysAre(d, NoKeypair, NoKeypair, NoKeypair),
           Deleted(d, {keypairs[d].previous.li, keypairs[d].current.li, keypairs[d].next.li})
    PROVE /\ NoOrphan(d)'
          /\ SlotOk(d) /\ Reachable(d) => SlotOk(d)' /\ Reachable(d)'
<1>0. Held(d)' = {}
  BY HeldIs
<1>1. NoOrphan(d)'
  BY DEF NoOrphan, Deleted, Held, Free
<1>2. Reachable(d)'
  BY <1>0 DEF Reachable
<1>3. ASSUME SlotOk(d), Reachable(d) PROVE SlotOk(d)'
  <2>1. hs[d].li \in Indices => table'[d][hs[d].li] = HandshakeEntry
    BY <1>3, HandshakeApart DEF SlotOk, Deleted
  <2> QED BY <1>3, <2>1 DEF SlotOk, KeysAre
<1> QED BY <1>1, <1>2, <1>3

\* A new keypair takes the slot of the handshake; what is deleted was let go of.
LEMMA SwappedOrphans ==
    ASSUME Types, NEW d \in Devices, NoOrphan(d), NEW is, SwappedDeleted(d, is),
           KeypairOf(d) \in Held(d)' \/ KeypairOf(d) = NoKeypair,
           \A k \in Held(d) : k \in Held(d)' \/ k.li \in is
    PROVE NoOrphan(d)'
<1> DEFINE kp == KeypairOf(d)
<1>0. kp.li = hs[d].li
  BY Zenon DEF KeypairOf
<1> SUFFICES ASSUME NEW i \in Indices, table'[d][i] # Free
             PROVE /\ table'[d][i].st = "keypair" =>
                        table'[d][i].kp \in Held(d)' /\ table'[d][i].kp.li = i
                   /\ table'[d][i].st # "handshake"
  BY DEF NoOrphan, Free
<1>1. i \notin is /\ table'[d][i] = Swapped(d, i)
  BY DEF SwappedDeleted
<1>2. CASE i = hs[d].li /\ table[d][i] # Free
  <2>1. table'[d][i] = KeypairEntry(kp)
    BY <1>1, <1>2 DEF Swapped
  <2>2. kp # NoKeypair
    BY <1>0, <1>2, SessionAssumption DEF NoKeypair
  <2>3. table'[d][i].st = "keypair" /\ table'[d][i].kp = kp
    BY <2>1 DEF KeypairEntry
  <2> QED BY <1>0, <1>2, <2>2, <2>3
<1>3. CASE ~(i = hs[d].li /\ table[d][i] # Free)
  <2>1. table'[d][i] = table[d][i]
    BY <1>1, <1>3 DEF Swapped
  <2>2. table[d][i].st # "handshake"
    BY <1>3, <2>1 DEF NoOrphan
  <2> QED BY <1>1, <2>1, <2>2 DEF NoOrphan
<1> QED BY <1>2, <1>3

\* Given that nothing that is kept is deleted, everything that is held is in the table.
LEMMA SwappedReach ==
    ASSUME Types, NEW d \in Devices, SlotOk(d), Reachable(d), NEW is, SwappedDeleted(d, is),
           hs[d].li \in Indices \ is,
           \A k \in Held(d)' : k = KeypairOf(d) \/ (k \in Held(d) /\ k.li \notin is)
    PROVE Reachable(d)'
<1> DEFINE kp == KeypairOf(d)
<1>0. kp.li = hs[d].li
  BY DEF KeypairOf
<1> SUFFICES ASSUME NEW k \in Held(d)'
             PROVE k.li \in Indices /\ table'[d][k.li] = KeypairEntry(k)
  BY DEF Reachable
<1>1. table[d][hs[d].li] # Free
  BY DEF SlotOk, Free, HandshakeEntry
<1>2. CASE k = kp
  <2>1. table'[d][kp.li] = KeypairEntry(kp)
    BY <1>0, <1>1 DEF SwappedDeleted, Swapped
  <2> HIDE DEF kp
  <2> QED BY <1>0, <1>2, <2>1
<1>3. CASE k # kp
  <2>1. k \in Held(d) /\ k.li \notin is
    BY <1>3
  <2>2. k.li \in Indices /\ table[d][k.li] = KeypairEntry(k)
    BY <2>1 DEF Reachable
  <2>3. k.li # hs[d].li
    BY <2>1, HandshakeApart DEF Held
  <2>4. Swapped(d, k.li) = table[d][k.li]
    BY <2>3 DEF Swapped
  <2> QED BY <2>1, <2>2, <2>4 DEF SwappedDeleted
<1> QED BY <1>2, <1>3

\* An index that is deleted for a keypair is not that of another.
LEMMA NotDeleted ==
    ASSUME NEW d \in Devices, SlotOk(d), Reachable(d), NEW k \in Held(d),
           NEW l \in {keypairs[d].previous, keypairs[d].current, keypairs[d].next}, k # l
    PROVE k.li # l.li
<1>1. CASE l = NoKeypair
  BY <1>1, SessionAssumption DEF NoKeypair, Reachable
<1>2. CASE l # NoKeypair
  BY <1>2, Apart DEF Held
<1> QED BY <1>1, <1>2

\* The initiator installs its keypair under the index of the handshake.
LEMMA InstalledTable ==
    ASSUME Types, NEW d \in Devices, NoOrphan(d), hs[d].st = "responseConsumed",
           HsIs(d, "zeroed", NoIndex, hs[d].ri, NoChain),
           KeysAre(d, KeypairOf(d), IF keypairs[d].next # NoKeypair THEN keypairs[d].next
                                    ELSE keypairs[d].current, NoKeypair),
           SwappedDeleted(d, InstallDeletes(keypairs[d]))
    PROVE /\ NoOrphan(d)'
          /\ SlotOk(d) /\ Reachable(d) => SlotOk(d)' /\ Reachable(d)'
<1> DEFINE ks == keypairs[d]
           kp == KeypairOf(d)
           keep == IF ks.next # NoKeypair THEN ks.next ELSE ks.current
<1>1. Held(d)' = {kp, keep} \ {NoKeypair}
  <2>1. Held(d)' = {kp, keep, NoKeypair} \ {NoKeypair}
    <3> HIDE DEF kp, keep
    <3> QED BY HeldIs DEF kp, keep
  <2> QED BY <2>1
<1>2. NoOrphan(d)'
  <2>1. \A k \in Held(d) : k \in Held(d)' \/ k.li \in InstallDeletes(ks)
    BY <1>1 DEF Held, InstallDeletes
  <2> QED BY <1>1, <2>1, SwappedOrphans
<1>3. ASSUME SlotOk(d), Reachable(d) PROVE SlotOk(d)' /\ Reachable(d)'
  <2>1. hs[d].li \in Indices
    BY <1>3 DEF SlotOk
  <2>2. hs[d].li \notin InstallDeletes(ks)
    BY <1>3, <2>1, HandshakeApart DEF InstallDeletes
  <2>3. keep # NoKeypair => keep \in Held(d) /\ keep.li \notin InstallDeletes(ks)
    <3> SUFFICES ASSUME keep # NoKeypair PROVE keep \in Held(d) /\ keep.li \notin InstallDeletes(ks)
      OBVIOUS
    <3>1. keep \in Held(d)
      BY DEF Held
    <3>2. keep.li # ks.previous.li
      BY <1>3, <3>1, NotDeleted, Zenon DEF SlotOk
    <3>3. ks.next # NoKeypair => keep.li # ks.current.li
      BY <1>3, <3>1, NotDeleted, Zenon DEF SlotOk
    <3> QED BY <3>1, <3>2, <3>3, Zenon DEF InstallDeletes
  <2>4. Reachable(d)'
    BY <1>1, <1>3, <2>1, <2>2, <2>3, SwappedReach, Zenon
  <2>5. kp # keep /\ kp # NoKeypair
    <3>1. kp.li = hs[d].li
      BY DEF KeypairOf
    <3>2. kp # NoKeypair
      BY <2>1, <3>1, SessionAssumption DEF NoKeypair
    <3> QED BY <1>3, <2>1, <3>1, <3>2, HandshakeApart
  <2>6. SlotOk(d)'
    <3> HIDE DEF kp, keep
    <3> QED BY <2>5, SessionAssumption DEF SlotOk, KeysAre, HsIs, kp, keep
  <2> QED BY <2>4, <2>6
<1> QED BY <1>2, <1>3

\* The responder offers its keypair under the index of the handshake.
LEMMA OfferedTable ==
    ASSUME Types, NEW d \in Devices, NoOrphan(d), hs[d].st = "responseCreated",
           HsIs(d, "zeroed", NoIndex, hs[d].ri, NoChain),
           KeysAre(d, keypairs[d].current, NoKeypair, KeypairOf(d)),
           SwappedDeleted(d, OfferDeletes(keypairs[d]))
    PROVE /\ NoOrphan(d)'
          /\ SlotOk(d) /\ Reachable(d) => SlotOk(d)' /\ Reachable(d)'
<1> DEFINE ks == keypairs[d]
           kp == KeypairOf(d)
<1>1. Held(d)' = {ks.current, kp} \ {NoKeypair}
  <2>1. Held(d)' = {ks.current, NoKeypair, kp} \ {NoKeypair}
    <3> HIDE DEF kp
    <3> QED BY HeldIs DEF kp
  <2> QED BY <2>1
<1>2. NoOrphan(d)'
  <2>1. \A k \in Held(d) : k \in Held(d)' \/ k.li \in OfferDeletes(ks)
    BY <1>1 DEF Held, OfferDeletes
  <2> QED BY <1>1, <2>1, SwappedOrphans
<1>3. ASSUME SlotOk(d), Reachable(d) PROVE SlotOk(d)' /\ Reachable(d)'
  <2>1. hs[d].li \in Indices
    BY <1>3 DEF SlotOk
  <2>2. hs[d].li \notin OfferDeletes(ks)
    BY <1>3, <2>1, HandshakeApart DEF OfferDeletes
  <2>3. ks.current # NoKeypair => ks.current \in Held(d) /\ ks.current.li \notin OfferDeletes(ks)
    BY <1>3, NotDeleted, Zenon DEF SlotOk, Held, OfferDeletes
  <2>4. Reachable(d)'
    BY <1>1, <1>3, <2>1, <2>2, <2>3, SwappedReach, Zenon
  <2>5. kp # ks.current /\ kp # NoKeypair
    <3>1. kp.li = hs[d].li
      BY DEF KeypairOf
    <3>2. kp # NoKeypair
      BY <2>1, <3>1, SessionAssumption DEF NoKeypair
    <3> QED BY <1>3, <2>1, <3>1, <3>2, HandshakeApart
  <2>6. SlotOk(d)'
    <3> HIDE DEF kp
    <3> QED BY <2>5, SessionAssumption DEF SlotOk, KeysAre, HsIs, kp
  <2> QED BY <2>4, <2>6
<1> QED BY <1>2, <1>3, Zenon

DeviceInv(d) == NoOrphan(d) /\ (stale = {} => SlotOk(d) /\ Reachable(d))

\* A step of d is none of another device's.
LEMMA TableKept ==
    ASSUME TableInv, NEW d \in Devices, stale \subseteq stale',
           \A e \in Devices : e # d => /\ hs'[e] = hs[e] /\ table'[e] = table[e]
                                       /\ keypairs'[e] = keypairs[e],
           DeviceInv(d)'
    PROVE TableInv'
<1> SUFFICES ASSUME NEW e \in Devices, e # d PROVE DeviceInv(e)'
  BY DEF TableInv, DeviceInv
<1>1. hs'[e] = hs[e] /\ table'[e] = table[e] /\ keypairs'[e] = keypairs[e]
  OBVIOUS
<1>2. Held(e)' = Held(e)
  BY <1>1 DEF Held
<1>3. NoOrphan(e)'
  BY <1>1, <1>2 DEF TableInv, NoOrphan
<1>4. stale' = {} => SlotOk(e)' /\ Reachable(e)'
  BY <1>1, <1>2 DEF TableInv, SlotOk, Reachable
<1> QED BY <1>3, <1>4 DEF DeviceInv

\* Every step keeps table, keypairs and handshake in line.
LEMMA TableStep == Types /\ TableInv /\ [Next]_vars => TableInv'
<1> SUFFICES ASSUME Types, TableInv, [Next]_vars PROVE TableInv'
  OBVIOUS
<1>1. ASSUME Aside PROVE TableInv'
  BY <1>1, Zenon DEF Aside, TableInv, NoOrphan, SlotOk, Reachable, Held
<1>2. ASSUME NEW d \in Devices, KeyStep(d) PROVE TableInv'
  <2>0. NoOrphan(d) /\ (stale = {} => SlotOk(d) /\ Reachable(d))
    BY DEF TableInv
  <2>1. CASE SendInitiation(d) \/ \E w \in Workers[d] : CreateResponse(d, w)
    <3>1. PICK i \in Indices : /\ Reindexed(d, i) /\ UNCHANGED <<keypairs, stale>>
                               /\ \E st, ri, chain : HsIs(d, st, i, ri, chain)
      BY <2>1, SendInitiationEffect, CreateResponseEffect, Zenon
    <3>2. hs'[d].li = i /\ \A e \in Devices : e # d => hs'[e] = hs[e]
      BY <3>1 DEF HsIs
    <3>3. DeviceInv(d)'
      BY <2>0, <3>1, <3>2, ReindexedTable DEF DeviceInv
    <3> QED BY <3>1, <3>2, <3>3, TableKept DEF Reindexed, TableAt
  <2>2. CASE Promote(d)
    <3>0. UNCHANGED <<hs, stale>>
      BY <2>2, PromoteEffect, Zenon
    <3>1. CASE UNCHANGED <<keypairs, table>>
      BY <3>0, <3>1, Zenon DEF TableInv, NoOrphan, SlotOk, Reachable, Held
    <3>2. CASE /\ keypairs[d].next # NoKeypair
               /\ KeysAre(d, keypairs[d].next, keypairs[d].current, NoKeypair)
               /\ Deleted(d, {keypairs[d].previous.li})
      <4>1. DeviceInv(d)'
        BY <2>0, <3>0, <3>2, PromotedTable DEF DeviceInv
      <4> QED BY <3>0, <3>2, <4>1, TableKept, Zenon DEF KeysAre, Deleted, TableAt
    <3> QED BY <2>2, <3>1, <3>2, PromoteEffect
  <2>3. CASE ZeroKeypairs(d)
    <3>1. /\ KeysAre(d, NoKeypair, NoKeypair, NoKeypair)
          /\ Deleted(d, {keypairs[d].previous.li, keypairs[d].current.li, keypairs[d].next.li})
          /\ UNCHANGED <<hs, stale>>
      BY <2>3, ZeroKeypairsEffect
    <3>2. DeviceInv(d)'
      BY <2>0, <3>1, ZeroedTable DEF DeviceInv
    <3> QED BY <3>1, <3>2, TableKept, Zenon DEF KeysAre, Deleted, TableAt
  <2>4. CASE ZeroHandshake(d) \/ Expire(d)
    <3>1. ClearHandshake(d) /\ UNCHANGED <<keypairs, stale>>
      BY <2>4 DEF ZeroHandshake, Expire
    <3>2. HsIs(d, "zeroed", NoIndex, hs[d].ri, NoChain) /\ Deleted(d, {hs[d].li})
      BY <3>1, ClearEffect
    <3>3. DeviceInv(d)'
      BY <2>0, <3>1, <3>2, ClearedTable DEF DeviceInv, HsIs
    <3> QED BY <3>1, <3>2, <3>3, TableKept DEF HsIs, Deleted, TableAt
  <2>5. CASE \E w \in Workers[d] : ConsumeInitiation(d, w) \/ ConsumeResponse(d, w)
    <3>1. /\ stale \subseteq stale' /\ UNCHANGED <<table, keypairs>>
          /\ \E st, ri, chain : /\ HsIs(d, st, hs[d].li, ri, chain)
                                /\ \/ st = "initiationConsumed"
                                   \/ st = "responseConsumed"
                                      /\ (stale' = {} => hs[d].st = "initiationCreated")
      <4>1. CASE \E w \in Workers[d] : ConsumeInitiation(d, w)
        BY <4>1, ConsumeInitiationEffect, Zenon
      <4>2. CASE \E w \in Workers[d] : ConsumeResponse(d, w)
        BY <4>2, ConsumeResponseEffect, Zenon
      <4> QED BY <2>5, <4>1, <4>2, Zenon
    <3>2. /\ hs'[d].li = hs[d].li /\ \A e \in Devices : e # d => hs'[e] = hs[e]
          /\ \/ hs'[d].st = "initiationConsumed"
             \/ hs'[d].st = "responseConsumed" /\ (stale' = {} => hs[d].st = "initiationCreated")
      BY <3>1 DEF HsIs
    <3>3. NoOrphan(d)'
      BY <2>0, <3>1, <3>2, Zenon DEF NoOrphan, Held
    <3>4. ASSUME stale' = {} PROVE SlotOk(d)' /\ Reachable(d)'
      <4>1. SlotOk(d) /\ Reachable(d)
        BY <2>0, <3>1, <3>4
      <4>2. Reachable(d)'
        BY <3>1, <4>1 DEF Reachable, Held
      <4>3. SlotOk(d)'
        BY <3>1, <3>2, <3>4, <4>1 DEF SlotOk
      <4> QED BY <4>2, <4>3
    <3>5. DeviceInv(d)'
      BY <3>3, <3>4 DEF DeviceInv
    <3> QED BY <3>1, <3>2, <3>5, TableKept
  <2>6. CASE \E w \in Workers[d] : BeginSession(d, w)
    <3>1. Begin(d) /\ UNCHANGED stale
      BY <2>6 DEF BeginSession
    <3>2. /\ DeviceInv(d)'
          /\ \A e \in Devices : e # d => table'[e] = table[e] /\ keypairs'[e] = keypairs[e]
      <4>0. HsIs(d, "zeroed", NoIndex, hs[d].ri, NoChain)
        BY <3>1, BeginEffect, Zenon
      <4>1. CASE /\ hs[d].st = "responseConsumed"
                 /\ KeysAre(d, KeypairOf(d), IF keypairs[d].next # NoKeypair THEN keypairs[d].next
                                             ELSE keypairs[d].current, NoKeypair)
                 /\ SwappedDeleted(d, InstallDeletes(keypairs[d]))
        <5>1. DeviceInv(d)'
          BY <2>0, <3>1, <4>0, <4>1, InstalledTable, Zenon DEF DeviceInv
        <5> QED BY <4>1, <5>1, Zenon DEF KeysAre, SwappedDeleted, TableAt
      <4>2. CASE /\ hs[d].st = "responseCreated"
                 /\ KeysAre(d, keypairs[d].current, NoKeypair, KeypairOf(d))
                 /\ SwappedDeleted(d, OfferDeletes(keypairs[d]))
        <5>1. DeviceInv(d)'
          BY <2>0, <3>1, <4>0, <4>2, OfferedTable, Zenon DEF DeviceInv
        <5> QED BY <4>2, <5>1 DEF KeysAre, SwappedDeleted, TableAt
      <4> QED BY <3>1, <4>1, <4>2, BeginEffect, Zenon
    <3>3. \A e \in Devices : e # d => hs'[e] = hs[e]
      BY <3>1, BeginEffect DEF HsIs
    <3> QED BY <3>1, <3>2, <3>3, TableKept
  <2> QED BY <1>2, <2>1, <2>2, <2>3, <2>4, <2>5, <2>6, Zenon DEF KeyStep
<1>3. CASE UNCHANGED vars
  BY <1>1, <1>3 DEF vars, Aside
<1> QED BY <1>1, <1>2, <1>3, Steps, SideStepEffect

-----------------------------------------------------------------------------
(* The responder waits for the initiator. *)

\* What a device has derived stays derived.
Grows == \A d \in Devices : derived[d] \subseteq derived'[d]

\* A key that the initiator has made stays made.
LEMMA ConfirmedStays ==
    ASSUME Grows, NEW d \in Devices, NEW key, Confirmed(d, key) PROVE Confirmed(d, key)'
  BY Others DEF Grows, Confirmed

\* So a message under a confirmed key stays one.
LEMMA DataStays ==
    ASSUME Types, Grows, NEW m, IsMessage(m), DataConfirmed(m) PROVE DataConfirmed(m)'
<1> SUFFICES ASSUME m.type = "data" PROVE DataConfirmed(m)'
  BY DEF DataConfirmed
<1>1. m.to \in Devices
  BY DEF IsMessage, IsInitiation, IsResponse, IsData
<1>2. m.init => Confirmed(m.to, m.chain)'
  BY <1>1, ConfirmedStays DEF DataConfirmed
<1>3. ~m.init => \E kp \in derived'[m.to] : kp.key = m.chain /\ kp.init
  BY <1>1 DEF DataConfirmed, Grows
<1> QED BY <1>2, <1>3 DEF DataConfirmed

\* A step that gives no device another current keypair or another packet.
LEMMA ConfirmKept ==
    ASSUME Types, ConfirmInv, Grows,
           \A d \in Devices : /\ inbound'[d] \in {inbound[d], NoKeypair}
                              /\ keypairs'[d].current \in {keypairs[d].current, NoKeypair}
                                   \/ (keypairs'[d].current.init = TRUE)
                              /\ Held(d)' \subseteq Held(d) \union derived'[d],
           \A m \in net' : m \in net \/ m.type # "data"
    PROVE ConfirmInv'
<1>1. ASSUME NEW d \in Devices PROVE KeysConfirmed(d)'
  <2>1. Held(d)' \subseteq derived'[d]
    BY <1>1 DEF ConfirmInv, KeysConfirmed, Grows
  <2>2. (inbound[d] # NoKeypair /\ ~inbound[d].init => Confirmed(d, inbound[d].key))'
    <3> SUFFICES ASSUME (inbound[d] # NoKeypair /\ ~inbound[d].init)'
                 PROVE Confirmed(d, inbound[d].key)'
      OBVIOUS
    <3>1. PICK k : k = inbound[d]
      OBVIOUS
    <3>2. inbound'[d] = k /\ Confirmed(d, k.key)
      BY <1>1, <3>1 DEF ConfirmInv, KeysConfirmed
    <3>3. Confirmed(d, k.key)'
      BY <1>1, <3>2, ConfirmedStays
    <3> QED BY <3>2, <3>3
  <2>3. (keypairs[d].current # NoKeypair /\ ~keypairs[d].current.init =>
          Confirmed(d, keypairs[d].current.key))'
    <3> SUFFICES ASSUME (keypairs[d].current # NoKeypair /\ ~keypairs[d].current.init)'
                 PROVE Confirmed(d, keypairs[d].current.key)'
      OBVIOUS
    <3>1. PICK k : k = keypairs[d].current
      OBVIOUS
    <3>2. keypairs'[d].current = k
      BY <1>1, <3>1
    <3>3. Confirmed(d, k.key)
      BY <1>1, <3>1, <3>2 DEF ConfirmInv, KeysConfirmed
    <3>4. Confirmed(d, k.key)'
      BY <1>1, <3>3, ConfirmedStays
    <3> QED BY <3>2, <3>4
  <2> QED BY <2>1, <2>2, <2>3 DEF KeysConfirmed
<1>2. ASSUME NEW m \in net' PROVE DataConfirmed(m)'
  <2>1. CASE m \in net
    BY <2>1, DataStays DEF ConfirmInv, Types, WorkTypes
  <2>2. CASE m.type # "data"
    BY <2>2 DEF DataConfirmed
  <2> QED BY <2>1, <2>2
<1> QED BY <1>1, <1>2 DEF ConfirmInv

\* Data is sent under a key that the peer has.
LEMMA SendDataConfirms ==
    ASSUME Types, ConfirmInv, NEW d \in Devices, SendData(d) PROVE ConfirmInv'
<1>1. PICK k : k = keypairs[d].current
  OBVIOUS
<1>2. PICK m : m = [type |-> "data", to |-> Other(d), receiver |-> k.ri, chain |-> k.key,
                    init |-> k.init]
  BY Zenon
<1>3. /\ k # NoKeypair /\ net' = net \union {m}
      /\ UNCHANGED <<keypairs, inbound, derived>>
  BY <1>1, <1>2 DEF SendData
<1>4. \A e \in Devices : KeysConfirmed(e)'
  BY <1>3 DEF ConfirmInv, KeysConfirmed, Confirmed, Held
<1>5. m.to = Other(d) /\ m.chain = k.key /\ m.init = k.init /\ m.type = "data"
  BY <1>2
<1>6. k \in derived[d] /\ k.init \in BOOLEAN
  BY <1>1, <1>3 DEF ConfirmInv, KeysConfirmed, Held, Types, KeyTypes, KeysOk, IsKeypair
<1>7. DataConfirmed(m)
  <2>1. m.init => Confirmed(m.to, m.chain)
    BY <1>5, <1>6, Others, Zenon DEF Confirmed
  <2>2. ~m.init => \E kp \in derived[m.to] : kp.key = m.chain /\ kp.init
    BY <1>1, <1>3, <1>5, Zenon DEF ConfirmInv, KeysConfirmed, Confirmed
  <2> QED BY <1>5, <1>6, <2>1, <2>2 DEF DataConfirmed
<1>8. \A n \in net' : DataConfirmed(n)'
  BY <1>3, <1>7, Zenon DEF ConfirmInv, DataConfirmed, Confirmed
<1> QED BY <1>4, <1>8 DEF ConfirmInv

\* What was received shows that the peer has the key,
LEMMA ReceiveDataConfirms ==
    ASSUME Types, ConfirmInv, NEW d \in Devices, NEW m \in net, ReceiveData(d, m) PROVE ConfirmInv'
<1>1. PICK k : k = table[d][m.receiver].kp
  OBVIOUS
<1>2. /\ m.type = "data" /\ m.to = d /\ k.key = m.chain /\ k.init # m.init
      /\ inbound' = [inbound EXCEPT ![d] = k]
      /\ m.receiver \in Indices /\ table[d][m.receiver].st = "keypair"
      /\ UNCHANGED <<keypairs, net, derived>>
  BY <1>1 DEF ReceiveData
<1>3. k.init \in BOOLEAN
  BY <1>1, <1>2 DEF Types, TableTypes, TableOk, IsKeypair
<1>4. ~k.init => Confirmed(d, k.key)
  BY <1>2, <1>3 DEF ConfirmInv, DataConfirmed
<1>5. \A e \in Devices : e # d => inbound'[e] = inbound[e]
  BY <1>2 DEF Types, KeyTypes
<1>6. inbound'[d] = k
  BY <1>2 DEF Types, KeyTypes
<1>7. ASSUME NEW e \in Devices PROVE KeysConfirmed(e)'
  <2>1. KeysConfirmed(e)
    BY DEF ConfirmInv
  <2>2. CASE e = d
    BY <1>2, <1>4, <1>6, <2>1, <2>2 DEF KeysConfirmed, Confirmed, Held
  <2>3. CASE e # d
    BY <1>2, <1>5, <2>1, <2>3 DEF KeysConfirmed, Confirmed, Held
  <2> QED BY <2>2, <2>3
<1>8. \A n \in net' : DataConfirmed(n)'
  BY <1>2 DEF ConfirmInv, DataConfirmed, Confirmed
<1> QED BY <1>7, <1>8 DEF ConfirmInv

\* and so the keypair that becomes current is confirmed.
LEMMA PromoteConfirms ==
    ASSUME Types, ConfirmInv, NEW d \in Devices, Promote(d) PROVE ConfirmInv'
<1>1. /\ inbound'[d] = NoKeypair
      /\ \A e \in Devices : e # d => inbound'[e] = inbound[e]
      /\ UNCHANGED <<net, derived>>
  BY PromoteEffect, Zenon
<1>2. CASE UNCHANGED keypairs
  BY <1>1, <1>2, ConfirmKept DEF Grows, Held
<1>3. CASE /\ keypairs[d].next = inbound[d] /\ keypairs[d].next # NoKeypair
           /\ KeysAre(d, keypairs[d].next, keypairs[d].current, NoKeypair)
  <2>1. ASSUME NEW e \in Devices PROVE KeysConfirmed(e)'
    <3>1. KeysConfirmed(e)
      BY DEF ConfirmInv
    <3>2. CASE e = d
      <4>1. (keypairs[d].current # NoKeypair /\ ~keypairs[d].current.init =>
               Confirmed(d, keypairs[d].current.key))'
        BY <1>1, <1>3, <3>1, <3>2 DEF KeysConfirmed, Confirmed, KeysAre
      <4>2. Held(d)' \subseteq Held(d)
        BY <1>3 DEF KeysAre, Held
      <4> QED BY <1>1, <3>1, <3>2, <4>1, <4>2 DEF KeysConfirmed
    <3>3. CASE e # d
      BY <1>1, <1>3, <3>1, <3>3 DEF KeysConfirmed, Confirmed, Held, KeysAre
    <3> QED BY <3>2, <3>3
  <2>2. \A n \in net' : DataConfirmed(n)'
    BY <1>1 DEF ConfirmInv, DataConfirmed, Confirmed
  <2> QED BY <2>1, <2>2 DEF ConfirmInv
<1> QED BY <1>2, <1>3, PromoteEffect, Zenon

\* Every step keeps the responder waiting for the initiator.
LEMMA ConfirmStep == Types /\ ConfirmInv /\ [Next]_vars => ConfirmInv'
<1> SUFFICES ASSUME Types, ConfirmInv, [Next]_vars PROVE ConfirmInv'
  OBVIOUS
<1>k. ASSUME UNCHANGED <<keypairs, inbound, derived>>, \A m \in net' : m \in net \/ m.type # "data"
      PROVE ConfirmInv'
  BY <1>k, ConfirmKept DEF Grows, Held
<1>1. ASSUME NEW d \in Devices, SideStep(d) PROVE ConfirmInv'
  <2>1. CASE SendData(d)
    BY <2>1, SendDataConfirms
  <2>2. CASE \E m \in net : ReceiveData(d, m)
    BY <2>2, ReceiveDataConfirms
  <2>3. CASE \/ StopBegin(d) \/ Start(d)
             \/ \E w \in Workers[d] : \/ WorkerFails(d, w)
                                      \/ \E m \in net : CheckInitiation(d, w, m) \/ CheckResponse(d, w, m)
    BY <1>k, <2>3, Zenon DEF StopBegin, Start, WorkerFails, CheckInitiation, CheckResponse
  <2> QED BY <1>1, <2>1, <2>2, <2>3 DEF SideStep
<1>2. ASSUME NEW d \in Devices, KeyStep(d) PROVE ConfirmInv'
  <2>1. CASE SendInitiation(d)
    <3>1. PICK i \in Indices : /\ net' = net \union {InitiationOf(d, i)}
                               /\ UNCHANGED <<keypairs, inbound, derived>>
      BY <2>1, SendInitiationEffect, Zenon
    <3>2. InitiationOf(d, i).type = "initiation"
      BY DEF InitiationOf
    <3> QED BY <1>k, <3>1, <3>2
  <2>2. CASE Promote(d)
    BY <2>2, PromoteConfirms
  <2>3. CASE ZeroKeypairs(d)
    BY <2>3, ZeroKeypairsEffect, ConfirmKept, Zenon DEF Grows, Held, KeysAre
  <2>4. CASE ZeroHandshake(d) \/ Expire(d)
    BY <1>k, <2>4 DEF ZeroHandshake, Expire
  <2>5. CASE \E w \in Workers[d] : \/ ConsumeInitiation(d, w) \/ ConsumeResponse(d, w)
                                   \/ CreateResponse(d, w)
    BY <1>k, <2>5, Zenon DEF ConsumeInitiation, ConsumeResponse, CreateResponse
  <2>6. ASSUME NEW w \in Workers[d], BeginSession(d, w) PROVE ConfirmInv'
    <3> DEFINE kp == KeypairOf(d)
    <3>1. /\ Begin(d) /\ UNCHANGED inbound
          /\ net' = IF worker[d][w].pc = "responseCreated" THEN net \union {worker[d][w].msg} ELSE net
      BY <2>6 DEF BeginSession
    <3>2. \A m \in net' : m \in net \/ m.type # "data"
      BY <3>1 DEF Types, WorkTypes, WorkOk, IsResponse
    <3>3. Grows /\ kp \in derived'[d]
      BY <3>1, BeginEffect, Zenon DEF Grows
    <3>4. \A e \in Devices : e # d => keypairs'[e] = keypairs[e]
      BY <3>1, BeginEffect, Zenon DEF KeysAre
    <3>5. /\ keypairs'[d].current = keypairs[d].current \/ keypairs'[d].current.init = TRUE
          /\ Held(d)' \subseteq Held(d) \union {kp}
      <4>1. CASE /\ hs[d].st = "responseConsumed"
                 /\ KeysAre(d, kp, IF keypairs[d].next # NoKeypair THEN keypairs[d].next
                                             ELSE keypairs[d].current, NoKeypair)
        <5>1. kp.init = TRUE
          BY <4>1, Zenon DEF KeypairOf
        <5> HIDE DEF kp
        <5> QED BY <4>1, <5>1 DEF KeysAre, Held
      <4>2. CASE KeysAre(d, keypairs[d].current, NoKeypair, kp)
        <5> HIDE DEF kp
        <5> QED BY <4>2 DEF KeysAre, Held
      <4> QED BY <3>1, <4>1, <4>2, BeginEffect, Zenon
    <3>6. \A e \in Devices : Held(e)' \subseteq Held(e) \union derived'[e]
      BY <3>3, <3>4, <3>5 DEF Held
    <3> HIDE DEF kp
    <3> QED BY <3>1, <3>2, <3>3, <3>4, <3>5, <3>6, ConfirmKept, Zenon
  <2> QED BY <1>2, <2>1, <2>2, <2>3, <2>4, <2>5, <2>6 DEF KeyStep
<1>3. CASE UNCHANGED vars
  BY <1>k, <1>3 DEF vars
<1> QED BY <1>1, <1>2, <1>3, Steps

-----------------------------------------------------------------------------
KeysInv == Types /\ TableInv /\ ConfirmInv

\* The invariant holds at first.
LEMMA InitKeys == Init => KeysInv
<1> SUFFICES ASSUME Init PROVE KeysInv
  OBVIOUS
<1>1. Types
  BY InitTypes
<1>2. /\ \A d \in Devices : Held(d) = {} /\ keypairs[d].current = NoKeypair
      /\ \A d \in Devices : inbound[d] = NoKeypair
      /\ \A d \in Devices : hs[d].st = "zeroed" /\ hs[d].li = NoIndex
      /\ \A d \in Devices : \A i \in Indices : table[d][i].st = "free"
      /\ net = {}
  BY DEF Init, Held, NoKeypairs, Zeroed, Free
<1>3. TableInv
  <2> SUFFICES ASSUME NEW d \in Devices PROVE NoOrphan(d) /\ SlotOk(d) /\ Reachable(d)
    BY DEF TableInv
  <2>1. SlotOk(d)
    BY <1>2, SessionAssumption, Zenon DEF SlotOk, Init, NoKeypairs
  <2>2. NoOrphan(d) /\ Reachable(d)
    BY <1>2, Zenon DEF NoOrphan, Reachable
  <2> QED BY <2>1, <2>2
<1>4. ConfirmInv
  BY <1>2 DEF ConfirmInv, KeysConfirmed
<1> QED BY <1>1, <1>3, <1>4 DEF KeysInv

\* The inductive invariant.
LEMMA KeysInvariant == Spec => []KeysInv
<1>1. KeysInv /\ [Next]_vars => KeysInv'
  BY TypesStep, TableStep, ConfirmStep DEF KeysInv
<1> QED BY <1>1, InitKeys, PTL DEF Spec

\* The index table has nothing that the peer has forgotten, whatever Stop, the timers and
\* the handshake workers do in between (NewIndexForHandshake, SwapIndexForKeypair,
\* Delete in noise-protocol.go and peer.go).
THEOREM TableHasNoOrphans == Spec => []NoOrphanEntry
<1>1. KeysInv => NoOrphanEntry
  BY DEF KeysInv, TableInv, NoOrphan, NoOrphanEntry
<1> QED BY <1>1, KeysInvariant, PTL

\* Unless a worker has applied a response that another had overtaken, every keypair a
\* peer holds is found under its index (BeginSymmetricSession, ReceivedWithKeypair).
THEOREM KeypairsAreReachable == Spec => []HeldIsReachable
<1>1. KeysInv => HeldIsReachable
  BY DEF KeysInv, TableInv, Reachable, HeldIsReachable
<1> QED BY <1>1, KeysInvariant, PTL

\* A responder sends nothing under a key that the initiator has not derived
\* (ReceivedWithKeypair moves next to current only for a packet of the initiator).
THEOREM ResponderWaits == Spec => []ConfirmedBeforeUse
<1>1. KeysInv => ConfirmedBeforeUse
  BY DEF KeysInv, ConfirmInv, DataConfirmed, ConfirmedBeforeUse
<1> QED BY <1>1, KeysInvariant, PTL
=============================================================================
