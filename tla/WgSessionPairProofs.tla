------------------------- MODULE WgSessionPairProofs ------------------------
(***************************************************************************)
(* WgSession, between the two devices: an initiation makes one session on  *)
(* either side, and the two ends of a session agree on it.                 *)
(***************************************************************************)
EXTENDS WgSessionProofs

\* The ephemerals of a chain were drawn.
Drawn(c) == c[2] <= eph[c[1]] /\ (c \in Responses => c[3] <= eph[Other(c[1])])

MsgDrawn(m) == m.type \in {"initiation", "response"} => Drawn(m.chain)

HsDrawn(d) ==
    /\ hs[d].st # "zeroed" => Drawn(hs[d].chain)
    /\ hs[d].st \in {"initiationConsumed", "responseCreated"} => hs[d].chain[2] <= lastTs[d]

KeyDrawn(d, k) == Drawn(k.key) /\ (~k.init => k.key[2] <= lastTs[d])

WorkDrawn(d, w) == worker[d][w].pc = "responseCreated" => Drawn(worker[d][w].msg.chain)

DrawnInv ==
    /\ \A m \in net : MsgDrawn(m)
    /\ \A d \in Devices : /\ HsDrawn(d) /\ \A k \in derived[d] : KeyDrawn(d, k)
                          /\ \A w \in Workers[d] : WorkDrawn(d, w)

\* No session was made of the initiation that the handshake is about, nor two of
\* any other.
Fresh(d) ==
    /\ hs[d].st # "zeroed" => \A k \in derived[d] : ~SamePrefix(k.key, hs[d].chain)
    /\ \A k, l \in derived[d] : SamePrefix(k.key, l.key) => k = l

FreshInv == stale = {} => \A d \in Devices : Fresh(d)

\* Somebody has it that the initiator has the index i in the handshake that it,
\* a, has begun with its ephemeral n.
MsgInitiator(m, a, n, i) ==
    /\ m.chain[1] = a /\ m.chain[2] = n
    /\ \/ m.type = "initiation" /\ m.sender = i
       \/ m.type = "response" /\ m.receiver = i

HsInitiator(d, a, n, i) ==
    /\ hs[d].st # "zeroed" /\ hs[d].chain[1] = a /\ hs[d].chain[2] = n
    /\ i = IF a = d THEN hs[d].li ELSE hs[d].ri

KeyInitiator(d, k, a, n, i) ==
    k.key[1] = a /\ k.key[2] = n /\ i = IF a = d THEN k.li ELSE k.ri

KnowsInitiator(a, n, i) ==
    \/ \E m \in net : MsgInitiator(m, a, n, i)
    \/ \E d \in Devices : \E w \in Workers[d] :
         worker[d][w].pc = "responseCreated" /\ MsgInitiator(worker[d][w].msg, a, n, i)
    \/ \E d \in Devices : HsInitiator(d, a, n, i)
    \/ \E d \in Devices : \E k \in derived[d] : KeyInitiator(d, k, a, n, i)

\* The same about the responder, with its ephemeral r.
MsgResponder(m, a, n, r, i) == m.type = "response" /\ m.chain = <<a, n, r>> /\ m.sender = i

HsResponder(d, a, n, r, i) ==
    /\ hs[d].st \in {"responseCreated", "responseConsumed"} /\ hs[d].chain = <<a, n, r>>
    /\ i = IF a = d THEN hs[d].ri ELSE hs[d].li

KeyResponder(d, k, a, n, r, i) ==
    k.key = <<a, n, r>> /\ i = IF a = d THEN k.ri ELSE k.li

KnowsResponder(a, n, r, i) ==
    \/ \E m \in net : MsgResponder(m, a, n, r, i)
    \/ \E d \in Devices : \E w \in Workers[d] :
         worker[d][w].pc = "responseCreated" /\ MsgResponder(worker[d][w].msg, a, n, r, i)
    \/ \E d \in Devices : HsResponder(d, a, n, r, i)
    \/ \E d \in Devices : \E k \in derived[d] : KeyResponder(d, k, a, n, r, i)

PairInv ==
    stale = {} =>
      /\ \A a, n, i, j : KnowsInitiator(a, n, i) /\ KnowsInitiator(a, n, j) => i = j
      /\ \A a, n, r, i, j : KnowsResponder(a, n, r, i) /\ KnowsResponder(a, n, r, j) => i = j

-----------------------------------------------------------------------------
(* The ephemerals and the timestamps. *)

\* Time goes on.
Later == /\ eph' \in [Devices -> Nat] /\ \A e \in Devices : eph[e] <= eph'[e]
         /\ lastTs' \in [Devices -> Nat] /\ \A e \in Devices : lastTs[e] <= lastTs'[e]

\* An ephemeral that was drawn stays drawn: in a chain,
LEMMA DrawnStays ==
    ASSUME Types, Later, NEW c, c \in Initiations \/ c \in Responses, Drawn(c) PROVE Drawn(c)'
<1>1. c[1] \in Devices /\ c[2] \in Nat /\ (c \in Responses => c[3] \in Nat)
  BY ChainsOf
<1>2. Other(c[1]) \in Devices
  BY <1>1, Others
<1>3. eph[c[1]] \in Nat /\ eph'[c[1]] \in Nat /\ eph[c[1]] <= eph'[c[1]]
  BY <1>1 DEF Types, Later
<1>4. eph[Other(c[1])] \in Nat /\ eph'[Other(c[1])] \in Nat /\ eph[Other(c[1])] <= eph'[Other(c[1])]
  BY <1>2 DEF Types, Later
<1>5. c[2] <= eph'[c[1]]
  BY <1>1, <1>3 DEF Drawn
<1>6. c \in Responses => c[3] <= eph'[Other(c[1])]
  BY <1>1, <1>4 DEF Drawn
<1> QED BY <1>5, <1>6 DEF Drawn

\* in a message,
LEMMA MsgDrawnStays ==
    ASSUME Types, Later, NEW m, IsMessage(m), MsgDrawn(m) PROVE MsgDrawn(m)'
<1> SUFFICES ASSUME m.type \in {"initiation", "response"} PROVE Drawn(m.chain)'
  BY DEF MsgDrawn
<1>1. m.chain \in Initiations \/ m.chain \in Responses
  BY DEF IsMessage, IsInitiation, IsResponse, IsData
<1>2. Drawn(m.chain)
  BY DEF MsgDrawn
<1> QED BY <1>1, <1>2, DrawnStays

\* in a handshake,
LEMMA HsDrawnStays ==
    ASSUME Types, Later, NEW d \in Devices, HsDrawn(d), hs'[d] = hs[d] PROVE HsDrawn(d)'
<1>1. PICK c : c = hs[d].chain
  OBVIOUS
<1>2. hs[d].st # "zeroed" => c \in Initiations \/ c \in Responses
  BY <1>1 DEF Types, HsTypes, HsOk
<1>3. hs[d].st # "zeroed" => Drawn(c)'
  BY <1>1, <1>2, DrawnStays DEF HsDrawn
<1>4. hs[d].st \in {"initiationConsumed", "responseCreated"} => c[2] <= lastTs'[d]
  <2> SUFFICES ASSUME hs[d].st \in {"initiationConsumed", "responseCreated"}
               PROVE c[2] <= lastTs'[d]
    OBVIOUS
  <2>1. c[2] \in Nat /\ c[2] <= lastTs[d]
    BY <1>1, <1>2, ChainsOf DEF HsDrawn
  <2> QED BY <2>1 DEF Types, Later
<1> QED BY <1>1, <1>3, <1>4 DEF HsDrawn

\* in a key,
LEMMA KeyDrawnStays ==
    ASSUME Types, Later, NEW d \in Devices, NEW k, k.key \in Responses, KeyDrawn(d, k)
    PROVE KeyDrawn(d, k)'
<1>1. Drawn(k.key)'
  BY DrawnStays DEF KeyDrawn
<1>2. k.key[2] \in Nat
  BY ChainsOf
<1>3. ~k.init => k.key[2] <= lastTs'[d]
  BY <1>2 DEF KeyDrawn, Types, Later
<1> QED BY <1>1, <1>3 DEF KeyDrawn

\* and in the response a worker is about to send.
LEMMA WorkDrawnStays ==
    ASSUME Types, Later, NEW d \in Devices, NEW w \in Workers[d], WorkDrawn(d, w),
           worker'[d][w] = worker[d][w]
    PROVE WorkDrawn(d, w)'
<1> SUFFICES ASSUME worker[d][w].pc = "responseCreated" PROVE Drawn(worker[d][w].msg.chain)'
  BY DEF WorkDrawn
<1>1. PICK c : c = worker[d][w].msg.chain
  OBVIOUS
<1>2. c \in Responses /\ Drawn(c)
  BY <1>1 DEF Types, WorkTypes, WorkOk, IsResponse, WorkDrawn
<1>3. Drawn(c)'
  BY <1>2, DrawnStays
<1> QED BY <1>1, <1>3

\* What a step has to show: of what it writes.
LEMMA DrawnKept ==
    ASSUME Types, DrawnInv, Later,
           \A m \in net' : m \in net \/ MsgDrawn(m)',
           \A d \in Devices : hs'[d] = hs[d] \/ HsDrawn(d)',
           \A d \in Devices : \A k \in derived'[d] : k \in derived[d] \/ KeyDrawn(d, k)',
           \A d \in Devices : \A w \in Workers[d] :
             worker'[d][w] = worker[d][w] \/ WorkDrawn(d, w)'
    PROVE DrawnInv'
<1>1. ASSUME NEW m \in net' PROVE MsgDrawn(m)'
  BY MsgDrawnStays DEF DrawnInv, Types, WorkTypes
<1>2. ASSUME NEW d \in Devices PROVE HsDrawn(d)'
  BY HsDrawnStays DEF DrawnInv
<1>3. ASSUME NEW d \in Devices, NEW k \in derived'[d] PROVE KeyDrawn(d, k)'
  <2>1. CASE k \in derived[d]
    BY <2>1, KeyDrawnStays DEF DrawnInv, Types, KeyTypes, KeysOk
  <2> QED BY <2>1
<1>4. ASSUME NEW d \in Devices, NEW w \in Workers[d] PROVE WorkDrawn(d, w)'
  BY WorkDrawnStays DEF DrawnInv
<1> QED BY <1>1, <1>2, <1>3, <1>4 DEF DrawnInv

\* A step that touches no handshake.
LEMMA SideDrawn ==
    ASSUME Types, DrawnInv, Aside,
           \A m \in net' : m \in net \/ m.type = "data",
           \A d \in Devices : \A w \in Workers[d] :
             worker'[d][w] = worker[d][w] \/ worker'[d][w].pc # "responseCreated"
    PROVE DrawnInv'
<1>1. Later
  BY DEF Aside, Later, Types
<1>2. \A m \in net' : m \in net \/ MsgDrawn(m)'
  BY DEF MsgDrawn
<1>3. \A d \in Devices : \A w \in Workers[d] : worker'[d][w] = worker[d][w] \/ WorkDrawn(d, w)'
  BY DEF WorkDrawn
<1> QED BY <1>1, <1>2, <1>3, DrawnKept DEF Aside

\* The steps of the first kind write down no ephemeral that was not drawn;
LEMMA SideStepDrawn ==
    ASSUME Types, DrawnInv, NEW d \in Devices, SideStep(d) PROVE DrawnInv'
<1>1. Aside
  BY SideStepEffect
<1>2. CASE SendData(d)
  BY <1>1, <1>2, SideDrawn DEF SendData
<1>3. CASE StopBegin(d) \/ Start(d) \/ \E m \in net : ReceiveData(d, m)
  BY <1>1, <1>3, SideDrawn DEF StopBegin, Start, ReceiveData
<1>4. ASSUME NEW w \in Workers[d],
             WorkerFails(d, w) \/ \E m \in net : CheckInitiation(d, w, m) \/ CheckResponse(d, w, m)
      PROVE DrawnInv'
  <2>1. /\ UNCHANGED net
        /\ \E job : job.pc # "responseCreated" /\ Work(d, w, job)
    BY <1>4, Zenon DEF WorkerFails, CheckInitiation, CheckResponse, Idle
  <2>2. PICK job : job.pc # "responseCreated" /\ WorkIs(d, w, job)
    BY <2>1, WorkEffect DEF Types
  <2>3. \A e \in Devices : \A v \in Workers[e] :
             worker'[e][v] = worker[e][v] \/ worker'[e][v].pc # "responseCreated"
    BY <2>2 DEF WorkIs
  <2> QED BY <1>1, <2>1, <2>3, SideDrawn
<1> QED BY <1>2, <1>3, <1>4 DEF SideStep

\* nor do those of the second kind.
LEMMA KeyStepDrawn ==
    ASSUME Types, DrawnInv, NEW d \in Devices, KeyStep(d) PROVE DrawnInv'
<1>l. ASSUME UNCHANGED <<eph, lastTs>> PROVE Later
  BY <1>l DEF Later, Types
<1>d. ASSUME Drew(d), UNCHANGED lastTs PROVE Later
  BY <1>d DEF Later, Types, Drew
<1>1. CASE SendInitiation(d)
  <2>1. PICK i \in Indices :
            /\ Drew(d)
            /\ HsIs(d, "initiationCreated", i, hs[d].ri, <<d, eph'[d]>>)
            /\ net' = net \union {InitiationOf(d, i)}
            /\ UNCHANGED <<lastTs, worker, derived>>
    BY <1>1, SendInitiationEffect
  <2>2. PICK c : c = <<d, eph'[d]>>
    BY Zenon
  <2>3. Drawn(c)'
    <3>1. c \in Initiations /\ c[1] = d /\ c[2] = eph'[d]
      BY <2>1, <2>2 DEF Initiations, Drew
    <3>2. c \notin Responses /\ eph'[d] \in Nat
      BY <2>1, <3>1, ChainsOf DEF Drew
    <3> QED BY <3>1, <3>2 DEF Drawn
  <2>4. HsDrawn(d)'
    BY <2>1, <2>2, <2>3 DEF HsDrawn, HsIs
  <2>5. InitiationOf(d, i).chain = c
    BY <2>2 DEF InitiationOf
  <2>6. \A m \in net' : m \in net \/ MsgDrawn(m)'
    <3> SUFFICES ASSUME NEW m, m = InitiationOf(d, i) PROVE MsgDrawn(m)'
      BY <2>1
    <3> QED BY <2>3, <2>5 DEF MsgDrawn
  <2> QED BY <1>d, <2>1, <2>4, <2>6, DrawnKept DEF HsIs
<1>2. CASE Promote(d)
  BY <1>2, <1>l, PromoteEffect, DrawnKept, Zenon
<1>3. CASE ZeroKeypairs(d)
  BY <1>3, <1>l, ZeroKeypairsEffect, DrawnKept, Zenon
<1>4. CASE ZeroHandshake(d) \/ Expire(d)
  <2>1. ClearHandshake(d) /\ UNCHANGED <<lastTs, eph, worker, net, derived>>
    BY <1>4 DEF ZeroHandshake, Expire
  <2>2. HsIs(d, "zeroed", NoIndex, hs[d].ri, NoChain)
    BY <2>1, ClearEffect, Zenon
  <2>3. \A e \in Devices : hs'[e] = hs[e] \/ HsDrawn(e)'
    BY <2>2 DEF HsIs, HsDrawn
  <2> QED BY <1>l, <2>1, <2>3, DrawnKept
<1>5. ASSUME NEW w \in Workers[d], ConsumeInitiation(d, w) PROVE DrawnInv'
  <2>1. PICK m : m = worker[d][w].msg
    OBVIOUS
  <2>2. /\ worker[d][w].pc = "initiationChecked"
        /\ HsIs(d, "initiationConsumed", hs[d].li, m.sender, m.chain)
        /\ WorkIs(d, w, [pc |-> "respond"])
        /\ lastTs' \in [Devices -> Nat] /\ \A e \in Devices : e # d => lastTs'[e] = lastTs[e]
        /\ lastTs[d] <= lastTs'[d] /\ m.chain[2] <= lastTs'[d]
        /\ UNCHANGED <<eph, net, derived>>
    BY <1>5, <2>1, ConsumeInitiationEffect
  <2>3. Later
    BY <2>2 DEF Later, Types
  <2>4. m \in net /\ IsInitiation(m)
    BY <2>1, <2>2 DEF Types, WorkTypes, WorkOk
  <2>5. Drawn(m.chain)'
    BY <2>3, <2>4, DrawnStays DEF DrawnInv, MsgDrawn, IsInitiation
  <2>6. \A e \in Devices : hs'[e] = hs[e] \/ HsDrawn(e)'
    BY <2>2, <2>5 DEF HsIs, HsDrawn
  <2>7. \A e \in Devices : \A v \in Workers[e] : worker'[e][v] = worker[e][v] \/ WorkDrawn(e, v)'
    BY <2>2 DEF WorkIs, WorkDrawn
  <2> QED BY <2>2, <2>3, <2>6, <2>7, DrawnKept
<1>6. ASSUME NEW w \in Workers[d], ConsumeResponse(d, w) PROVE DrawnInv'
  <2>1. PICK m : m = worker[d][w].msg
    OBVIOUS
  <2>2. /\ worker[d][w].pc = "responseChecked"
        /\ HsIs(d, "responseConsumed", hs[d].li, m.sender, m.chain)
        /\ WorkIs(d, w, [pc |-> "responseConsumed"])
        /\ UNCHANGED <<lastTs, eph, net, derived>>
    BY <1>6, <2>1, ConsumeResponseEffect
  <2>3. Later
    BY <1>l, <2>2
  <2>4. m \in net /\ IsResponse(m)
    BY <2>1, <2>2 DEF Types, WorkTypes, WorkOk
  <2>5. Drawn(m.chain)'
    BY <2>3, <2>4, DrawnStays DEF DrawnInv, MsgDrawn, IsResponse
  <2>6. \A e \in Devices : hs'[e] = hs[e] \/ HsDrawn(e)'
    BY <2>2, <2>5 DEF HsIs, HsDrawn
  <2>7. \A e \in Devices : \A v \in Workers[e] : worker'[e][v] = worker[e][v] \/ WorkDrawn(e, v)'
    BY <2>2 DEF WorkIs, WorkDrawn
  <2> QED BY <2>2, <2>3, <2>6, <2>7, DrawnKept
<1>7. ASSUME NEW w \in Workers[d], CreateResponse(d, w) PROVE DrawnInv'
  <2>1. PICK i \in Indices :
            /\ hs[d].st = "initiationConsumed" /\ Drew(d)
            /\ HsIs(d, "responseCreated", i, hs[d].ri, Append(hs[d].chain, eph'[d]))
            /\ WorkIs(d, w, [pc |-> "responseCreated", msg |-> ResponseOf(d, i)])
            /\ UNCHANGED <<lastTs, net, derived>>
    BY <1>7, CreateResponseEffect
  <2>2. PICK c, b : c = Append(hs[d].chain, eph'[d]) /\ b = hs[d].chain
    BY Zenon
  <2>3. /\ b \in Initiations /\ b[1] = Other(d) /\ Drawn(b) /\ b[2] <= lastTs[d]
        /\ eph'[d] \in Nat
    BY <2>1, <2>2 DEF Types, HsTypes, HsOk, Drew, DrawnInv, HsDrawn
  <2>4. c \in Responses /\ c[1] = Other(d) /\ c[2] = b[2] /\ c[3] = eph'[d]
    BY <2>2, <2>3, ChainExtends
  <2>5. Later
    BY <1>d, <2>1
  <2>6. Drawn(c)'
    <3>1. Drawn(b)'
      BY <2>3, <2>5, DrawnStays
    <3>2. Other(c[1]) = d
      BY <2>4, Others
    <3>3. c[2] <= eph'[c[1]]
      BY <2>3, <2>4, <3>1 DEF Drawn
    <3>4. c[3] <= eph'[Other(c[1])]
      BY <2>3, <2>4, <3>2
    <3> QED BY <3>3, <3>4 DEF Drawn
  <2>7. \A e \in Devices : hs'[e] = hs[e] \/ HsDrawn(e)'
    BY <2>1, <2>2, <2>3, <2>4, <2>6, Zenon DEF HsIs, HsDrawn
  <2>8. \A e \in Devices : \A v \in Workers[e] : worker'[e][v] = worker[e][v] \/ WorkDrawn(e, v)'
    <3>1. worker'[d][w].msg.chain = c
      BY <2>1, <2>2 DEF WorkIs, ResponseOf
    <3> QED BY <2>1, <2>6, <3>1 DEF WorkIs, WorkDrawn
  <2> QED BY <2>1, <2>5, <2>7, <2>8, DrawnKept
<1>8. ASSUME NEW w \in Workers[d], BeginSession(d, w) PROVE DrawnInv'
  <2>1. /\ Begin(d) /\ Work(d, w, Idle) /\ UNCHANGED <<lastTs, eph>>
        /\ net' = IF worker[d][w].pc = "responseCreated" THEN net \union {worker[d][w].msg} ELSE net
    BY <1>8 DEF BeginSession
  <2>2. WorkIs(d, w, Idle)
    BY <2>1, WorkEffect DEF Types
  <2>3. Later
    BY <1>l, <2>1
  <2>4. \A m \in net' : m \in net \/ MsgDrawn(m)'
    BY <2>1 DEF DrawnInv, WorkDrawn, MsgDrawn, Drawn
  <2>5. PICK kp : kp = KeypairOf(d)
    OBVIOUS
  <2>6. kp.key = hs[d].chain /\ kp.init = (hs[d].st = "responseConsumed")
    BY <2>5 DEF KeypairOf
  <2>7. /\ HsIs(d, "zeroed", NoIndex, hs[d].ri, NoChain)
        /\ hs[d].st \in {"responseConsumed", "responseCreated"}
        /\ derived'[d] = derived[d] \union {kp}
        /\ \A e \in Devices : e # d => derived'[e] = derived[e]
    BY <2>1, <2>5, BeginEffect
  <2>8. KeyDrawn(d, kp)
    BY <2>6, <2>7, Zenon DEF DrawnInv, HsDrawn, KeyDrawn
  <2>9. KeyDrawn(d, kp)'
    BY <2>1, <2>8 DEF KeyDrawn, Drawn
  <2>10. \A e \in Devices : hs'[e] = hs[e] \/ HsDrawn(e)'
    BY <2>7 DEF HsIs, HsDrawn
  <2>11. \A e \in Devices : \A v \in Workers[e] : worker'[e][v] = worker[e][v] \/ WorkDrawn(e, v)'
    BY <2>2 DEF WorkIs, WorkDrawn, Idle
  <2>12. \A e \in Devices : \A k \in derived'[e] : k \in derived[e] \/ KeyDrawn(e, k)'
    BY <2>7, <2>9
  <2> QED BY <2>3, <2>4, <2>10, <2>11, <2>12, DrawnKept
<1> QED BY <1>1, <1>2, <1>3, <1>4, <1>5, <1>6, <1>7, <1>8 DEF KeyStep

\* Nor does any step.
LEMMA DrawnStep == Types /\ DrawnInv /\ [Next]_vars => DrawnInv'
<1> SUFFICES ASSUME Types, DrawnInv, [Next]_vars PROVE DrawnInv'
  OBVIOUS
<1>1. CASE UNCHANGED vars
  BY <1>1, SideDrawn DEF vars, Aside
<1> QED BY <1>1, Steps, SideStepDrawn, KeyStepDrawn

-----------------------------------------------------------------------------
(* One session of an initiation. *)

\* A step that derives nothing.
LEMMA FreshKept ==
    ASSUME FreshInv, UNCHANGED derived, stale \subseteq stale', NEW d \in Devices,
           \A e \in Devices : e # d => hs'[e] = hs[e],
           stale' = {} /\ hs'[d].st # "zeroed" =>
             \A k \in derived[d] : ~SamePrefix(k.key, hs'[d].chain)
    PROVE FreshInv'
<1> SUFFICES ASSUME stale' = {}, NEW e \in Devices PROVE Fresh(e)'
  BY DEF FreshInv
<1>1. Fresh(e)
  BY DEF FreshInv
<1>2. CASE e = d
  BY <1>1, <1>2 DEF Fresh
<1>3. CASE e # d
  BY <1>1, <1>3 DEF Fresh
<1> QED BY <1>2, <1>3

\* No step makes a second session of an initiation, unless a worker was overtaken.
LEMMA FreshStep == Types /\ DrawnInv /\ FreshInv /\ [Next]_vars => FreshInv'
<1> SUFFICES ASSUME Types, DrawnInv, FreshInv, [Next]_vars PROVE FreshInv'
  OBVIOUS
<1>1. ASSUME UNCHANGED <<hs, derived, stale>> PROVE FreshInv'
  BY <1>1 DEF FreshInv, Fresh
<1>2. ASSUME NEW d \in Devices, KeyStep(d) PROVE FreshInv'
  <2>0. \A k \in derived[d] : /\ k.key[1] = (IF k.init THEN d ELSE Other(d)) /\ k.key[2] \in Nat
                              /\ k.key[2] <= eph[k.key[1]]
                              /\ ~k.init => k.key[2] <= lastTs[d]
    BY ChainsOf DEF Types, KeyTypes, KeysOk, DrawnInv, KeyDrawn, Drawn
  <2>1. CASE SendInitiation(d)
    <3>1. PICK i \in Indices :
            /\ Drew(d) /\ HsIs(d, "initiationCreated", i, hs[d].ri, <<d, eph'[d]>>)
            /\ UNCHANGED <<derived, stale>>
      BY <2>1, SendInitiationEffect
    <3>2. hs'[d].chain[1] = d /\ hs'[d].chain[2] = eph[d] + 1 /\ eph[d] \in Nat
      BY <3>1 DEF HsIs, Drew, Types
    <3>3. \A k \in derived[d] : ~SamePrefix(k.key, hs'[d].chain)
      BY <2>0, <3>2 DEF SamePrefix
    <3> QED BY <3>1, <3>3, FreshKept DEF HsIs
  <2>2. CASE Promote(d)
    BY <1>1, <2>2, PromoteEffect, Zenon
  <2>3. CASE ZeroKeypairs(d)
    BY <1>1, <2>3, ZeroKeypairsEffect, Zenon
  <2>4. CASE ZeroHandshake(d) \/ Expire(d)
    <3>1. ClearHandshake(d) /\ UNCHANGED <<derived, stale>>
      BY <2>4 DEF ZeroHandshake, Expire
    <3> QED BY <3>1, ClearEffect, FreshKept, Zenon DEF HsIs
  <2>5. ASSUME NEW w \in Workers[d], ConsumeInitiation(d, w) PROVE FreshInv'
    <3>1. PICK m : m = worker[d][w].msg
      OBVIOUS
    <3>2. /\ worker[d][w].pc = "initiationChecked"
          /\ HsIs(d, "initiationConsumed", hs[d].li, m.sender, m.chain)
          /\ stale \subseteq stale' /\ (stale' = {} => m.chain[2] > lastTs[d])
          /\ UNCHANGED derived
      BY <2>5, <3>1, ConsumeInitiationEffect
    <3>3. m.chain[1] = Other(d) /\ m.chain[2] \in Nat
      BY <3>1, <3>2, ChainsOf DEF Types, WorkTypes, WorkOk, IsInitiation
    <3>4. stale' = {} => \A k \in derived[d] : ~SamePrefix(k.key, m.chain)
      BY <2>0, <3>2, <3>3, Others DEF SamePrefix, Types
    <3> QED BY <3>2, <3>4, FreshKept DEF HsIs
  <2>6. ASSUME NEW w \in Workers[d], ConsumeResponse(d, w) PROVE FreshInv'
    <3>1. PICK m : m = worker[d][w].msg
      OBVIOUS
    <3>2. /\ HsIs(d, "responseConsumed", hs[d].li, m.sender, m.chain)
          /\ stale \subseteq stale' /\ UNCHANGED derived
          /\ stale' = {} => hs[d].st = "initiationCreated" /\ SamePrefix(hs[d].chain, m.chain)
      BY <2>6, <3>1, ConsumeResponseEffect
    <3>3. stale' = {} => \A k \in derived[d] : ~SamePrefix(k.key, m.chain)
      BY <3>2 DEF SamePrefix, FreshInv, Fresh
    <3> QED BY <3>2, <3>3, FreshKept DEF HsIs
  <2>7. ASSUME NEW w \in Workers[d], CreateResponse(d, w) PROVE FreshInv'
    <3>1. PICK i \in Indices :
            /\ hs[d].st = "initiationConsumed" /\ Drew(d)
            /\ HsIs(d, "responseCreated", i, hs[d].ri, Append(hs[d].chain, eph'[d]))
            /\ UNCHANGED <<derived, stale>>
      BY <2>7, CreateResponseEffect, Zenon
    <3>2. PICK c : c = Append(hs[d].chain, eph'[d])
      BY Zenon
    <3>3. SamePrefix(hs[d].chain, c)
      <4>1. hs[d].chain \in Initiations /\ eph'[d] \in Nat
        BY <3>1 DEF Types, HsTypes, HsOk, Drew
      <4> QED BY <3>2, <4>1, ChainExtends DEF SamePrefix
    <3>4. stale' = {} => \A k \in derived[d] : ~SamePrefix(k.key, c)
      BY <3>1, <3>3 DEF SamePrefix, FreshInv, Fresh
    <3> QED BY <3>1, <3>2, <3>4, FreshKept, Zenon DEF HsIs
  <2>8. ASSUME NEW w \in Workers[d], BeginSession(d, w) PROVE FreshInv'
    <3>1. Begin(d) /\ UNCHANGED stale
      BY <2>8 DEF BeginSession
    <3>2. PICK kp : kp = KeypairOf(d)
      OBVIOUS
    <3>3. kp.key = hs[d].chain
      BY <3>2 DEF KeypairOf
    <3>4. /\ HsIs(d, "zeroed", NoIndex, hs[d].ri, NoChain)
          /\ hs[d].st # "zeroed"
          /\ derived'[d] = derived[d] \union {kp}
          /\ \A e \in Devices : e # d => derived'[e] = derived[e]
      BY <3>1, <3>2, BeginEffect
    <3> SUFFICES ASSUME stale' = {}, NEW e \in Devices PROVE Fresh(e)'
      BY DEF FreshInv
    <3>5. Fresh(e)
      BY <3>1 DEF FreshInv
    <3>6. CASE e = d
      <4>1. \A k \in derived[d] : ~SamePrefix(k.key, kp.key) /\ ~SamePrefix(kp.key, k.key)
        BY <3>3, <3>4, <3>5, <3>6 DEF Fresh, SamePrefix
      <4>2. hs'[d].st = "zeroed"
        BY <3>4 DEF HsIs
      <4> QED BY <3>4, <3>5, <3>6, <4>1, <4>2 DEF Fresh
    <3>7. CASE e # d
      BY <3>4, <3>5, <3>7 DEF Fresh, HsIs
    <3> QED BY <3>6, <3>7
  <2> QED BY <1>2, <2>1, <2>2, <2>3, <2>4, <2>5, <2>6, <2>7, <2>8 DEF KeyStep
<1>3. CASE UNCHANGED vars
  BY <1>1, <1>3 DEF vars
<1> QED BY <1>1, <1>2, <1>3, Steps, SideStepEffect DEF Aside

-----------------------------------------------------------------------------
(* The two ends of a session. *)

\* What the step makes known is in F or was known.
LearnsInitiator(F) ==
    \A a, n, i : KnowsInitiator(a, n, i)' => KnowsInitiator(a, n, i) \/ <<a, n, i>> \in F

LearnsResponder(F) ==
    \A a, n, r, i :
      KnowsResponder(a, n, r, i)' => KnowsResponder(a, n, r, i) \/ <<a, n, r, i>> \in F

\* A handshake that is left alone says what it said: of the initiator,
LEMMA HsInitiatorSame ==
    ASSUME NEW d, hs'[d] = hs[d], NEW a, NEW n, NEW i, HsInitiator(d, a, n, i)' PROVE HsInitiator(d, a, n, i)
BY DEF HsInitiator

\* What a step makes known of an initiator, looked for part by part.
LEMMA InitiatorLearned ==
    ASSUME NEW F,
           \A m \in net' : m \in net \/ \A a, n, i :
             MsgInitiator(m, a, n, i) => KnowsInitiator(a, n, i) \/ <<a, n, i>> \in F,
           \A d \in Devices : \A w \in Workers[d] :
             \/ worker'[d][w] = worker[d][w] \/ worker'[d][w].pc # "responseCreated"
             \/ \A a, n, i : MsgInitiator(worker'[d][w].msg, a, n, i) =>
                               KnowsInitiator(a, n, i) \/ <<a, n, i>> \in F,
           \A d \in Devices : hs'[d] = hs[d] \/ \A a, n, i :
             HsInitiator(d, a, n, i)' => KnowsInitiator(a, n, i) \/ <<a, n, i>> \in F,
           \A d \in Devices : \A k \in derived'[d] : k \in derived[d] \/ \A a, n, i :
             KeyInitiator(d, k, a, n, i) => KnowsInitiator(a, n, i) \/ <<a, n, i>> \in F
    PROVE LearnsInitiator(F)
<1> SUFFICES ASSUME NEW a, NEW n, NEW i, KnowsInitiator(a, n, i)'
             PROVE KnowsInitiator(a, n, i) \/ <<a, n, i>> \in F
  BY Zenon DEF LearnsInitiator
<1>1. CASE \E m \in net' : MsgInitiator(m, a, n, i)
  BY <1>1, Zenon DEF KnowsInitiator
<1>2. CASE \E d \in Devices : \E w \in Workers[d] :
             worker'[d][w].pc = "responseCreated" /\ MsgInitiator(worker'[d][w].msg, a, n, i)
  BY <1>2, Zenon DEF KnowsInitiator
<1>3. ASSUME NEW d \in Devices, HsInitiator(d, a, n, i)'
      PROVE KnowsInitiator(a, n, i) \/ <<a, n, i>> \in F
  <2>1. CASE hs'[d] = hs[d]
    <3>1. HsInitiator(d, a, n, i)
      BY <1>3, <2>1, HsInitiatorSame
    <3> QED BY <3>1, Zenon DEF KnowsInitiator
  <2>2. CASE hs'[d] # hs[d]
    BY <1>3, <2>2, Zenon
  <2> QED BY <2>1, <2>2, Zenon
<1>4. CASE \E d \in Devices : \E k \in derived'[d] : KeyInitiator(d, k, a, n, i)
  BY <1>4, Zenon DEF KnowsInitiator
<1>5. \/ \E m \in net' : MsgInitiator(m, a, n, i)
      \/ \E d \in Devices : \E w \in Workers[d] :
             worker'[d][w].pc = "responseCreated" /\ MsgInitiator(worker'[d][w].msg, a, n, i)
      \/ \E d \in Devices : HsInitiator(d, a, n, i)'
      \/ \E d \in Devices : \E k \in derived'[d] : KeyInitiator(d, k, a, n, i)
  BY Zenon DEF KnowsInitiator
<1> QED BY <1>1, <1>2, <1>3, <1>4, <1>5, Zenon

\* and of the responder.
LEMMA HsResponderSame ==
    ASSUME NEW d, hs'[d] = hs[d], NEW a, NEW n, NEW r, NEW i, HsResponder(d, a, n, r, i)' PROVE HsResponder(d, a, n, r, i)
BY DEF HsResponder

\* What a step makes known of a responder, part by part.
LEMMA ResponderLearned ==
    ASSUME NEW F,
           \A m \in net' : m \in net \/ \A a, n, r, i :
             MsgResponder(m, a, n, r, i) => KnowsResponder(a, n, r, i) \/ <<a, n, r, i>> \in F,
           \A d \in Devices : \A w \in Workers[d] :
             \/ worker'[d][w] = worker[d][w] \/ worker'[d][w].pc # "responseCreated"
             \/ \A a, n, r, i : MsgResponder(worker'[d][w].msg, a, n, r, i) =>
                                  KnowsResponder(a, n, r, i) \/ <<a, n, r, i>> \in F,
           \A d \in Devices : hs'[d] = hs[d] \/ \A a, n, r, i :
             HsResponder(d, a, n, r, i)' => KnowsResponder(a, n, r, i) \/ <<a, n, r, i>> \in F,
           \A d \in Devices : \A k \in derived'[d] : k \in derived[d] \/ \A a, n, r, i :
             KeyResponder(d, k, a, n, r, i) => KnowsResponder(a, n, r, i) \/ <<a, n, r, i>> \in F
    PROVE LearnsResponder(F)
<1> SUFFICES ASSUME NEW a, NEW n, NEW r, NEW i, KnowsResponder(a, n, r, i)'
             PROVE KnowsResponder(a, n, r, i) \/ <<a, n, r, i>> \in F
  BY Zenon DEF LearnsResponder
<1>1. CASE \E m \in net' : MsgResponder(m, a, n, r, i)
  BY <1>1, Zenon DEF KnowsResponder
<1>2. CASE \E d \in Devices : \E w \in Workers[d] :
             worker'[d][w].pc = "responseCreated" /\ MsgResponder(worker'[d][w].msg, a, n, r, i)
  BY <1>2, Zenon DEF KnowsResponder
<1>3. ASSUME NEW d \in Devices, HsResponder(d, a, n, r, i)'
      PROVE KnowsResponder(a, n, r, i) \/ <<a, n, r, i>> \in F
  <2>1. CASE hs'[d] = hs[d]
    <3>1. HsResponder(d, a, n, r, i)
      BY <1>3, <2>1, HsResponderSame
    <3> QED BY <3>1, Zenon DEF KnowsResponder
  <2>2. CASE hs'[d] # hs[d]
    BY <1>3, <2>2, Zenon
  <2> QED BY <2>1, <2>2, Zenon
<1>4. CASE \E d \in Devices : \E k \in derived'[d] : KeyResponder(d, k, a, n, r, i)
  BY <1>4, Zenon DEF KnowsResponder
<1>5. \/ \E m \in net' : MsgResponder(m, a, n, r, i)
      \/ \E d \in Devices : \E w \in Workers[d] :
             worker'[d][w].pc = "responseCreated" /\ MsgResponder(worker'[d][w].msg, a, n, r, i)
      \/ \E d \in Devices : HsResponder(d, a, n, r, i)'
      \/ \E d \in Devices : \E k \in derived'[d] : KeyResponder(d, k, a, n, r, i)
  BY Zenon DEF KnowsResponder
<1> QED BY <1>1, <1>2, <1>3, <1>4, <1>5, Zenon

\* What is known is about ephemerals that were drawn.
LEMMA KnownIsDrawn ==
    ASSUME Types, DrawnInv
    PROVE /\ \A a, n, i : KnowsInitiator(a, n, i) => a \in Devices /\ n \in Nat /\ n <= eph[a]
          /\ \A a, n, r, i : KnowsResponder(a, n, r, i) =>
               a \in Devices /\ r \in Nat /\ r <= eph[Other(a)]
<1>c. /\ \A c \in Initiations \union Responses : Drawn(c) =>
           c[1] \in Devices /\ c[2] \in Nat /\ c[2] <= eph[c[1]]
      /\ \A c \in Responses : Drawn(c) => c[1] \in Devices /\ c[3] \in Nat /\ c[3] <= eph[Other(c[1])]
  BY ChainsOf DEF Drawn
<1>m. \A m \in net : m.type \in {"initiation", "response"} =>
        /\ m.chain \in Initiations \union Responses /\ Drawn(m.chain)
        /\ m.type = "response" => m.chain \in Responses
  BY DEF Types, WorkTypes, IsMessage, IsInitiation, IsResponse, IsData, DrawnInv, MsgDrawn
<1>w. \A d \in Devices : \A w \in Workers[d] : worker[d][w].pc = "responseCreated" =>
        worker[d][w].msg.chain \in Responses /\ Drawn(worker[d][w].msg.chain)
  BY DEF Types, WorkTypes, WorkOk, IsResponse, DrawnInv, WorkDrawn
<1>h. \A d \in Devices : hs[d].st # "zeroed" =>
        /\ hs[d].chain \in Initiations \union Responses /\ Drawn(hs[d].chain)
        /\ hs[d].st \in {"responseCreated", "responseConsumed"} => hs[d].chain \in Responses
  BY DEF Types, HsTypes, HsOk, DrawnInv, HsDrawn
<1>k. \A d \in Devices : \A k \in derived[d] : k.key \in Responses /\ Drawn(k.key)
  BY DEF Types, KeyTypes, KeysOk, DrawnInv, KeyDrawn
<1>1. ASSUME NEW a, NEW n, NEW i, KnowsInitiator(a, n, i)
      PROVE a \in Devices /\ n \in Nat /\ n <= eph[a]
  <2>1. \E c \in Initiations \union Responses : Drawn(c) /\ c[1] = a /\ c[2] = n
    BY <1>1, <1>m, <1>w, <1>h, <1>k DEF KnowsInitiator, MsgInitiator, HsInitiator, KeyInitiator
  <2> QED BY <1>c, <2>1
<1>2. ASSUME NEW a, NEW n, NEW r, NEW i, KnowsResponder(a, n, r, i)
      PROVE a \in Devices /\ r \in Nat /\ r <= eph[Other(a)]
  <2>1. \E c \in Responses : Drawn(c) /\ c = <<a, n, r>>
    BY <1>2, <1>m, <1>w, <1>h, <1>k, Zenon DEF KnowsResponder, MsgResponder, HsResponder, KeyResponder
  <2> QED BY <1>c, <2>1
<1> QED BY <1>1, <1>2

\* No step makes something else known of a handshake, or of a response, than was known.
LEMMA PairKept ==
    ASSUME PairInv, stale \subseteq stale', NEW F, NEW G,
           stale' = {} => LearnsInitiator(F) /\ LearnsResponder(G),
           \A f \in F : \E a, n, i : f = <<a, n, i>> /\ F = {f} /\ \A j : ~KnowsInitiator(a, n, j),
           \A g \in G : \E a, n, r, i : g = <<a, n, r, i>> /\ G = {g}
                                        /\ \A j : ~KnowsResponder(a, n, r, j)
    PROVE PairInv'
<1> SUFFICES ASSUME stale' = {}
             PROVE /\ \A a, n, i, j : KnowsInitiator(a, n, i)' /\ KnowsInitiator(a, n, j)' => i = j
                   /\ \A a, n, r, i, j :
                        KnowsResponder(a, n, r, i)' /\ KnowsResponder(a, n, r, j)' => i = j
  BY DEF PairInv
<1>1. ASSUME NEW a, NEW n, NEW i, NEW j, KnowsInitiator(a, n, i)', KnowsInitiator(a, n, j)'
      PROVE i = j
  <2>1. KnowsInitiator(a, n, i) \/ <<a, n, i>> \in F
    BY <1>1 DEF LearnsInitiator
  <2>2. KnowsInitiator(a, n, j) \/ <<a, n, j>> \in F
    BY <1>1 DEF LearnsInitiator
  <2>3. CASE <<a, n, i>> \in F
    BY <2>2, <2>3
  <2>4. CASE <<a, n, j>> \in F
    BY <2>1, <2>4
  <2>5. CASE KnowsInitiator(a, n, i) /\ KnowsInitiator(a, n, j)
    BY <2>5 DEF PairInv
  <2> QED BY <2>1, <2>2, <2>3, <2>4, <2>5
<1>2. ASSUME NEW a, NEW n, NEW r, NEW i, NEW j,
             KnowsResponder(a, n, r, i)', KnowsResponder(a, n, r, j)'
      PROVE i = j
  <2>1. KnowsResponder(a, n, r, i) \/ <<a, n, r, i>> \in G
    BY <1>2 DEF LearnsResponder
  <2>2. KnowsResponder(a, n, r, j) \/ <<a, n, r, j>> \in G
    BY <1>2 DEF LearnsResponder
  <2>3. CASE <<a, n, r, i>> \in G
    BY <2>2, <2>3
  <2>4. CASE <<a, n, r, j>> \in G
    BY <2>1, <2>4
  <2>5. CASE KnowsResponder(a, n, r, i) /\ KnowsResponder(a, n, r, j)
    BY <2>5 DEF PairInv
  <2> QED BY <2>1, <2>2, <2>3, <2>4, <2>5
<1> QED BY <1>1, <1>2

\* A step that writes down no handshake.
LEMMA PairAside ==
    ASSUME Types, PairInv, stale \subseteq stale', UNCHANGED derived,
           \A m \in net' : m \in net \/ m.type = "data",
           \A d \in Devices : \A w \in Workers[d] :
             worker'[d][w] = worker[d][w] \/ worker'[d][w].pc # "responseCreated",
           \A d \in Devices : hs'[d] = hs[d] \/ hs'[d].st = "zeroed"
    PROVE PairInv'
<1>1. LearnsInitiator({})
  <2>1. \A m \in net' : m \in net \/ \A a, n, i : ~MsgInitiator(m, a, n, i)
    BY DEF MsgInitiator
  <2>2. \A d \in Devices : hs'[d] = hs[d] \/ \A a, n, i : ~HsInitiator(d, a, n, i)'
    BY DEF HsInitiator
  <2> QED BY <2>1, <2>2, InitiatorLearned
<1>2. LearnsResponder({})
  <2>1. \A m \in net' : m \in net \/ \A a, n, r, i : ~MsgResponder(m, a, n, r, i)
    BY DEF MsgResponder
  <2>2. \A d \in Devices : hs'[d] = hs[d] \/ \A a, n, r, i : ~HsResponder(d, a, n, r, i)'
    BY DEF HsResponder
  <2> QED BY <2>1, <2>2, ResponderLearned
<1> QED BY <1>1, <1>2, PairKept

\* A worker that goes on without a response.
LEMMA WorkQuiet ==
    ASSUME NEW d \in Devices, NEW w \in Workers[d], NEW job, WorkIs(d, w, job),
           job.pc # "responseCreated"
    PROVE \A x \in Devices : \A v \in Workers[x] :
            worker'[x][v] = worker[x][v] \/ worker'[x][v].pc # "responseCreated"
<1> SUFFICES ASSUME NEW x \in Devices, NEW v \in Workers[x], worker'[x][v] # worker[x][v]
             PROVE worker'[x][v].pc # "responseCreated"
  BY Zenon
<1>1. worker'[x][v] = job
  BY DEF WorkIs
<1> QED BY <1>1

\* The steps of the first kind make nothing known.
LEMMA SideStepPairs ==
    ASSUME Types, PairInv, NEW d \in Devices, SideStep(d) PROVE PairInv'
<1>1. UNCHANGED <<hs, derived, stale>>
  BY SideStepEffect DEF Aside
<1>2. CASE SendData(d)
  BY <1>1, <1>2, PairAside DEF SendData
<1>3. CASE StopBegin(d) \/ Start(d) \/ \E m \in net : ReceiveData(d, m)
  BY <1>1, <1>3, PairAside DEF StopBegin, Start, ReceiveData
<1>4. ASSUME NEW w \in Workers[d],
             WorkerFails(d, w) \/ \E m \in net : CheckInitiation(d, w, m) \/ CheckResponse(d, w, m)
      PROVE PairInv'
  <2>1. /\ UNCHANGED net
        /\ \E job : job.pc # "responseCreated" /\ Work(d, w, job)
    BY <1>4, Zenon DEF WorkerFails, CheckInitiation, CheckResponse, Idle
  <2>2. PICK job : job.pc # "responseCreated" /\ WorkIs(d, w, job)
    BY <2>1, WorkEffect DEF Types
  <2>3. \A e \in Devices : \A v \in Workers[e] :
             worker'[e][v] = worker[e][v] \/ worker'[e][v].pc # "responseCreated"
    BY <2>2, WorkQuiet
  <2> QED BY <1>1, <2>1, <2>3, PairAside
<1> QED BY <1>2, <1>3, <1>4 DEF SideStep

\* An initiation tells the index that goes with a new ephemeral.
LEMMA SendInitiationPairs ==
    ASSUME Types, DrawnInv, PairInv, NEW d \in Devices, SendInitiation(d) PROVE PairInv'
<1>1. PICK i \in Indices :
          /\ Drew(d) /\ HsIs(d, "initiationCreated", i, hs[d].ri, <<d, eph'[d]>>)
          /\ net' = net \union {InitiationOf(d, i)}
          /\ UNCHANGED <<worker, derived, stale>>
  BY SendInitiationEffect
<1>2. PICK e : e = eph'[d]
  OBVIOUS
<1>3. e = eph[d] + 1 /\ eph[d] \in Nat
  BY <1>1, <1>2 DEF Drew, Types
<1>4. PICK m : m = InitiationOf(d, i)
  OBVIOUS
<1>5. m.type = "initiation" /\ m.chain = <<d, e>> /\ m.sender = i
  BY <1>2, <1>4 DEF InitiationOf
<1>6. LearnsInitiator({<<d, e, i>>})
  <2>1. \A a, n, j : MsgInitiator(m, a, n, j) => <<a, n, j>> = <<d, e, i>>
    BY <1>5 DEF MsgInitiator
  <2>2. \A a, n, j : HsInitiator(d, a, n, j)' => <<a, n, j>> = <<d, e, i>>
    BY <1>1, <1>2 DEF HsInitiator, HsIs
  <2>3. \A x \in Devices : hs'[x] = hs[x] \/ \A a, n, j :
          HsInitiator(x, a, n, j)' => <<a, n, j>> \in {<<d, e, i>>}
    BY <1>1, <2>2 DEF HsIs
  <2> QED BY <1>1, <1>4, <2>1, <2>3, InitiatorLearned
<1>7. LearnsResponder({})
  <2>1. \A a, n, r, j : ~MsgResponder(m, a, n, r, j)
    BY <1>5 DEF MsgResponder
  <2>2. \A x \in Devices : hs'[x] = hs[x] \/ \A a, n, r, j : ~HsResponder(x, a, n, r, j)'
    BY <1>1 DEF HsResponder, HsIs
  <2> QED BY <1>1, <1>4, <2>1, <2>2, ResponderLearned, Zenon
<1>8. \A j : ~KnowsInitiator(d, e, j)
  BY <1>3, KnownIsDrawn
<1> QED BY <1>1, <1>6, <1>7, <1>8, PairKept

\* The responder learns what the initiation says.
LEMMA ConsumeInitiationPairs ==
    ASSUME Types, PairInv, NEW d \in Devices, NEW w \in Workers[d], ConsumeInitiation(d, w)
    PROVE PairInv'
<1>1. PICK m : m = worker[d][w].msg
  OBVIOUS
<1>2. /\ worker[d][w].pc = "initiationChecked"
      /\ HsIs(d, "initiationConsumed", hs[d].li, m.sender, m.chain)
      /\ WorkIs(d, w, [pc |-> "respond"]) /\ stale \subseteq stale'
      /\ UNCHANGED <<net, derived>>
  BY <1>1, ConsumeInitiationEffect
<1>3. m \in net /\ m.type = "initiation" /\ m.chain[1] = Other(d)
  <2>1. WorkOk(d, w)
    BY DEF Types, WorkTypes
  <2> QED BY <1>1, <1>2, <2>1 DEF WorkOk, IsInitiation
<1>4. \A x \in Devices : \A v \in Workers[x] :
        worker'[x][v] = worker[x][v] \/ worker'[x][v].pc # "responseCreated"
  BY <1>2, WorkQuiet
<1>5. LearnsInitiator({})
  <2>1. \A a, n, j : HsInitiator(d, a, n, j)' => MsgInitiator(m, a, n, j)
    <3>1. Other(d) # d
      BY Others
    <3>2. hs'[d].chain = m.chain /\ hs'[d].ri = m.sender
      BY <1>2 DEF HsIs
    <3> SUFFICES ASSUME NEW a, NEW n, NEW j, HsInitiator(d, a, n, j)' PROVE MsgInitiator(m, a, n, j)
      OBVIOUS
    <3>3. m.chain[1] = a /\ m.chain[2] = n /\ j = IF a = d THEN hs'[d].li ELSE m.sender
      BY <3>2 DEF HsInitiator
    <3>4. j = m.sender
      BY <1>3, <3>1, <3>3
    <3> QED BY <1>3, <3>3, <3>4 DEF MsgInitiator
  <2>2. \A a, n, j : MsgInitiator(m, a, n, j) => KnowsInitiator(a, n, j)
    BY <1>3 DEF KnowsInitiator
  <2>3. \A x \in Devices : hs'[x] = hs[x] \/ \A a, n, j :
          HsInitiator(x, a, n, j)' => KnowsInitiator(a, n, j)
    BY <1>2, <2>1, <2>2 DEF HsIs
  <2> QED BY <1>2, <1>4, <2>3, InitiatorLearned, Zenon
<1>6. LearnsResponder({})
  <2>1. \A x \in Devices : hs'[x] = hs[x] \/ \A a, n, r, j : ~HsResponder(x, a, n, r, j)'
    BY <1>2 DEF HsResponder, HsIs
  <2> QED BY <1>2, <1>4, <2>1, ResponderLearned, Zenon
<1> QED BY <1>2, <1>5, <1>6, PairKept

\* The initiator learns what the response says, of the handshake it is in.
LEMMA ConsumeResponsePairs ==
    ASSUME Types, PairInv, NEW d \in Devices, NEW w \in Workers[d], ConsumeResponse(d, w)
    PROVE PairInv'
<1>1. PICK m : m = worker[d][w].msg
  OBVIOUS
<1>2. /\ worker[d][w].pc = "responseChecked"
      /\ HsIs(d, "responseConsumed", hs[d].li, m.sender, m.chain)
      /\ WorkIs(d, w, [pc |-> "responseConsumed"]) /\ stale \subseteq stale'
      /\ stale' = {} => hs[d].st = "initiationCreated" /\ SamePrefix(hs[d].chain, m.chain)
      /\ UNCHANGED <<net, derived>>
  BY <1>1, ConsumeResponseEffect
<1>3. m \in net /\ m.type = "response" /\ m.chain[1] = d
  <2>1. WorkOk(d, w)
    BY DEF Types, WorkTypes
  <2> QED BY <1>1, <1>2, <2>1 DEF WorkOk, IsResponse
<1>4. \A x \in Devices : \A v \in Workers[x] :
        worker'[x][v] = worker[x][v] \/ worker'[x][v].pc # "responseCreated"
  BY <1>2, WorkQuiet, Zenon
<1>5. ASSUME stale' = {} PROVE LearnsInitiator({})
  <2>1. \A a, n, j : HsInitiator(d, a, n, j)' => HsInitiator(d, a, n, j)
    BY <1>2, <1>3, <1>5, Zenon DEF HsInitiator, HsIs, SamePrefix
  <2>2. \A x \in Devices : hs'[x] = hs[x] \/ \A a, n, j :
          HsInitiator(x, a, n, j)' => KnowsInitiator(a, n, j)
    BY <1>2, <2>1, Zenon DEF HsIs, KnowsInitiator
  <2> QED BY <1>2, <1>4, <2>2, InitiatorLearned, Zenon
<1>6. LearnsResponder({})
  <2>1. \A a, n, r, j : HsResponder(d, a, n, r, j)' => MsgResponder(m, a, n, r, j)
    <3>1. hs'[d].chain = m.chain /\ hs'[d].ri = m.sender
      BY <1>2 DEF HsIs
    <3> SUFFICES ASSUME NEW a, NEW n, NEW r, NEW j, HsResponder(d, a, n, r, j)'
                 PROVE MsgResponder(m, a, n, r, j)
      OBVIOUS
    <3>2. m.chain = <<a, n, r>> /\ j = IF a = d THEN m.sender ELSE hs'[d].li
      BY <3>1 DEF HsResponder
    <3>3. a = d
      BY <1>3, <3>2
    <3> QED BY <1>3, <3>2, <3>3 DEF MsgResponder
  <2>2. \A x \in Devices : hs'[x] = hs[x] \/ \A a, n, r, j :
          HsResponder(x, a, n, r, j)' => KnowsResponder(a, n, r, j)
    BY <1>2, <1>3, <2>1, Zenon DEF HsIs, KnowsResponder
  <2> QED BY <1>2, <1>4, <2>2, ResponderLearned, Zenon
<1> QED BY <1>2, <1>5, <1>6, PairKept

\* A response tells the index that goes with a new ephemeral.
LEMMA CreateResponsePairs ==
    ASSUME Types, DrawnInv, PairInv, NEW d \in Devices, NEW w \in Workers[d], CreateResponse(d, w)
    PROVE PairInv'
<1>1. PICK i \in Indices :
          /\ hs[d].st = "initiationConsumed" /\ Drew(d)
          /\ HsIs(d, "responseCreated", i, hs[d].ri, Append(hs[d].chain, eph'[d]))
          /\ WorkIs(d, w, [pc |-> "responseCreated", msg |-> ResponseOf(d, i)])
          /\ UNCHANGED <<net, derived, stale>>
  BY CreateResponseEffect
<1>2. PICK c, e : c = Append(hs[d].chain, e) /\ e = eph'[d]
  BY Zenon
<1>3. e = eph[d] + 1 /\ eph[d] \in Nat
  BY <1>1, <1>2 DEF Drew, Types
<1>4. /\ hs[d].chain[1] = Other(d) /\ c = <<Other(d), hs[d].chain[2], e>>
      /\ c[1] = Other(d) /\ c[2] = hs[d].chain[2]
  <2>1. hs[d].chain \in Initiations /\ hs[d].chain[1] = Other(d)
    BY <1>1 DEF Types, HsTypes, HsOk
  <2>2. c \in Responses /\ c[1] = Other(d) /\ c[2] = hs[d].chain[2] /\ c[3] = e
    BY <1>2, <1>3, <2>1, ChainExtends
  <2> QED BY <2>1, <2>2, ChainsOf
<1>5. PICK m : m = ResponseOf(d, i)
  OBVIOUS
<1>6. m.type = "response" /\ m.chain = c /\ m.sender = i /\ m.receiver = hs[d].ri
  BY <1>2, <1>5 DEF ResponseOf
<1>7. worker'[d][w].msg = m
  <2>1. worker'[d][w] = [pc |-> "responseCreated", msg |-> ResponseOf(d, i)]
    BY <1>1, Zenon DEF WorkIs
  <2> QED BY <1>5, <2>1
<1>8. \A x \in Devices : \A v \in Workers[x] :
         x # d \/ v # w => worker'[x][v] = worker[x][v]
  BY <1>1 DEF WorkIs
<1>9. Other(d) # d /\ Other(Other(d)) = d
  BY Others
<1>10. LearnsInitiator({})
  <2>1. \A a, n, j : MsgInitiator(m, a, n, j) => HsInitiator(d, a, n, j)
    BY <1>1, <1>4, <1>6, <1>9 DEF MsgInitiator, HsInitiator
  <2>2. \A a, n, j : HsInitiator(d, a, n, j)' => HsInitiator(d, a, n, j)
    <3>1. hs'[d].chain = c /\ hs'[d].ri = hs[d].ri
      BY <1>1, <1>2, Zenon DEF HsIs
    <3> SUFFICES ASSUME NEW a, NEW n, NEW j, HsInitiator(d, a, n, j)'
                 PROVE HsInitiator(d, a, n, j)
      OBVIOUS
    <3>2. c[1] = a /\ c[2] = n /\ j = IF a = d THEN hs'[d].li ELSE hs[d].ri
      BY <3>1 DEF HsInitiator
    <3> QED BY <1>1, <1>4, <1>9, <3>2, Zenon DEF HsInitiator
  <2>3. \A a, n, j : HsInitiator(d, a, n, j) => KnowsInitiator(a, n, j)
    BY DEF KnowsInitiator
  <2>4. \A x \in Devices : hs'[x] = hs[x] \/ \A a, n, j :
          HsInitiator(x, a, n, j)' => KnowsInitiator(a, n, j)
    BY <1>1, <2>2, <2>3, Zenon DEF HsIs
  <2>5. \A x \in Devices : \A v \in Workers[x] : worker'[x][v] = worker[x][v] \/ \A a, n, j :
          MsgInitiator(worker'[x][v].msg, a, n, j) => KnowsInitiator(a, n, j)
    BY <1>7, <1>8, <2>1, <2>3, Zenon
  <2> QED BY <1>1, <2>4, <2>5, InitiatorLearned, Zenon
<1>11. PICK g : g = <<Other(d), hs[d].chain[2], e, i>>
  BY Zenon
<1>12. LearnsResponder({g})
  <2>1. \A a, n, r, j : MsgResponder(m, a, n, r, j) => <<a, n, r, j>> = g
    <3> SUFFICES ASSUME NEW a, NEW n, NEW r, NEW j, MsgResponder(m, a, n, r, j)
                 PROVE <<a, n, r, j>> = g
      OBVIOUS
    <3>1. <<a, n, r>> = <<Other(d), hs[d].chain[2], e>> /\ j = i
      BY <1>4, <1>6 DEF MsgResponder
    <3> QED BY <1>11, <3>1
  <2>2. \A a, n, r, j : HsResponder(d, a, n, r, j)' => <<a, n, r, j>> = g
    <3>1. hs'[d].chain = c /\ hs'[d].li = i
      BY <1>1, <1>2 DEF HsIs
    <3> SUFFICES ASSUME NEW a, NEW n, NEW r, NEW j, HsResponder(d, a, n, r, j)'
                 PROVE <<a, n, r, j>> = g
      OBVIOUS
    <3>2. c = <<a, n, r>> /\ j = IF a = d THEN hs'[d].ri ELSE i
      BY <3>1 DEF HsResponder
    <3>3. <<a, n, r>> = <<Other(d), hs[d].chain[2], e>>
      BY <1>4, <3>2, Zenon
    <3> QED BY <1>9, <1>11, <3>2, <3>3
  <2>3. \A x \in Devices : hs'[x] = hs[x] \/ \A a, n, r, j :
          HsResponder(x, a, n, r, j)' => <<a, n, r, j>> \in {g}
    <3>1. \A x \in Devices : x # d => hs'[x] = hs[x]
      BY <1>1, Zenon DEF HsIs
    <3> QED BY <2>2, <3>1, Zenon
  <2>4. \A x \in Devices : \A v \in Workers[x] : worker'[x][v] = worker[x][v] \/ \A a, n, r, j :
          MsgResponder(worker'[x][v].msg, a, n, r, j) => <<a, n, r, j>> \in {g}
    <3> SUFFICES ASSUME NEW x \in Devices, NEW v \in Workers[x], worker'[x][v] # worker[x][v],
                        NEW a, NEW n, NEW r, NEW j, MsgResponder(worker'[x][v].msg, a, n, r, j)
                 PROVE <<a, n, r, j>> = g
      BY Zenon
    <3>1. x = d /\ v = w
      BY <1>8, Zenon
    <3> QED BY <1>7, <2>1, <3>1, Zenon
  <2> QED BY <1>1, <2>3, <2>4, ResponderLearned, Zenon
<1>13. \A j : ~KnowsResponder(Other(d), hs[d].chain[2], e, j)
  <2> SUFFICES ASSUME NEW j, KnowsResponder(Other(d), hs[d].chain[2], e, j) PROVE FALSE
    OBVIOUS
  <2>1. e <= eph[Other(Other(d))]
    BY KnownIsDrawn
  <2> QED BY <1>3, <1>9, <2>1
<1>14. \A f \in {g} : \E a, n, r, j : f = <<a, n, r, j>> /\ {g} = {f}
                                      /\ \A k : ~KnowsResponder(a, n, r, k)
  BY <1>11, <1>13
<1> QED BY <1>1, <1>10, <1>12, <1>14, PairKept

\* The keypair takes what the handshake knew.
LEMMA BeginSessionPairs ==
    ASSUME Types, PairInv, NEW d \in Devices, NEW w \in Workers[d], BeginSession(d, w)
    PROVE PairInv'
<1>1. /\ Begin(d) /\ Work(d, w, Idle) /\ UNCHANGED stale
      /\ net' = IF worker[d][w].pc = "responseCreated" THEN net \union {worker[d][w].msg} ELSE net
  BY DEF BeginSession
<1>2. WorkIs(d, w, Idle)
  BY <1>1, WorkEffect DEF Types
<1>3. \A x \in Devices : \A v \in Workers[x] :
        worker'[x][v] = worker[x][v] \/ worker'[x][v].pc # "responseCreated"
  BY <1>2, WorkQuiet DEF Idle
<1>4. PICK kp : kp = KeypairOf(d)
  OBVIOUS
<1>5. kp.key = hs[d].chain /\ kp.li = hs[d].li /\ kp.ri = hs[d].ri
  BY <1>4 DEF KeypairOf
<1>6. /\ HsIs(d, "zeroed", NoIndex, hs[d].ri, NoChain)
      /\ hs[d].st \in {"responseConsumed", "responseCreated"}
      /\ derived'[d] = derived[d] \union {kp}
      /\ \A e \in Devices : e # d => derived'[e] = derived[e]
  BY <1>1, <1>4, BeginEffect, Zenon
<1>7. LearnsInitiator({})
  <2>1. \A m \in net' : m \in net \/ \A a, n, i : MsgInitiator(m, a, n, i) => KnowsInitiator(a, n, i)
    BY <1>1, Zenon DEF KnowsInitiator
  <2>2. \A a, n, i : KeyInitiator(d, kp, a, n, i) => HsInitiator(d, a, n, i)
    BY <1>5, <1>6 DEF KeyInitiator, HsInitiator
  <2>3. \A x \in Devices : \A k \in derived'[x] : k \in derived[x] \/ \A a, n, i :
          KeyInitiator(x, k, a, n, i) => KnowsInitiator(a, n, i)
    BY <1>6, <2>2, Zenon DEF KnowsInitiator
  <2>4. \A x \in Devices : hs'[x] = hs[x] \/ \A a, n, i : ~HsInitiator(x, a, n, i)'
    BY <1>6 DEF HsIs, HsInitiator
  <2> QED BY <1>3, <2>1, <2>3, <2>4, InitiatorLearned, Zenon
<1>8. LearnsResponder({})
  <2>1. \A m \in net' : m \in net \/ \A a, n, r, i :
          MsgResponder(m, a, n, r, i) => KnowsResponder(a, n, r, i)
    BY <1>1 DEF KnowsResponder
  <2>2. \A a, n, r, i : KeyResponder(d, kp, a, n, r, i) => HsResponder(d, a, n, r, i)
    BY <1>5, <1>6 DEF KeyResponder, HsResponder
  <2>3. \A x \in Devices : \A k \in derived'[x] : k \in derived[x] \/ \A a, n, r, i :
          KeyResponder(x, k, a, n, r, i) => KnowsResponder(a, n, r, i)
    BY <1>6, <2>2, Zenon DEF KnowsResponder
  <2>4. \A x \in Devices : hs'[x] = hs[x] \/ \A a, n, r, i : ~HsResponder(x, a, n, r, i)'
    BY <1>6 DEF HsIs, HsResponder
  <2> QED BY <1>3, <2>1, <2>3, <2>4, ResponderLearned, Zenon
<1> QED BY <1>1, <1>7, <1>8, PairKept, SMTT(20)

\* No step makes two things known of one handshake.
LEMMA PairStep == Types /\ DrawnInv /\ PairInv /\ [Next]_vars => PairInv'
<1> SUFFICES ASSUME Types, DrawnInv, PairInv, [Next]_vars PROVE PairInv'
  OBVIOUS
<1>1. ASSUME NEW d \in Devices, KeyStep(d) PROVE PairInv'
  <2>1. CASE Promote(d)
    BY <2>1, PromoteEffect, PairAside, Zenon
  <2>2. CASE ZeroKeypairs(d)
    BY <2>2, ZeroKeypairsEffect, PairAside, Zenon
  <2>3. CASE ZeroHandshake(d) \/ Expire(d)
    <3>1. ClearHandshake(d) /\ UNCHANGED <<worker, net, derived, stale>>
      BY <2>3 DEF ZeroHandshake, Expire
    <3>2. \A e \in Devices : hs'[e] = hs[e] \/ hs'[e].st = "zeroed"
      BY <3>1, ClearEffect, Zenon DEF HsIs
    <3> QED BY <3>1, <3>2, PairAside
  <2> QED BY <1>1, <2>1, <2>2, <2>3, SendInitiationPairs, ConsumeInitiationPairs,
             ConsumeResponsePairs, CreateResponsePairs, BeginSessionPairs DEF KeyStep
<1>2. CASE UNCHANGED vars
  BY <1>2, PairAside DEF vars
<1> QED BY <1>1, <1>2, Steps, SideStepPairs

-----------------------------------------------------------------------------
PeersInv == Types /\ DrawnInv /\ FreshInv /\ PairInv

\* The invariant holds at first.
LEMMA InitPeers == Init => PeersInv
<1> SUFFICES ASSUME Init PROVE PeersInv
  OBVIOUS
<1>1. Types
  BY InitTypes
<1>2. /\ \A d \in Devices : derived[d] = {} /\ hs[d].st = "zeroed"
      /\ \A d \in Devices : \A w \in Workers[d] : worker[d][w].pc = "idle"
      /\ net = {}
  BY DEF Init, Zeroed, Idle
<1>3. DrawnInv
  BY <1>2, Zenon DEF DrawnInv, HsDrawn, WorkDrawn
<1>4. FreshInv
  BY <1>2 DEF FreshInv, Fresh
<1>5. PairInv
  <2>1. /\ \A d \in Devices : \A w \in Workers[d] : worker[d][w].pc # "responseCreated"
        /\ \A d \in Devices : \A a, n, i : ~HsInitiator(d, a, n, i)
        /\ \A d \in Devices : \A a, n, r, i : ~HsResponder(d, a, n, r, i)
    BY <1>2 DEF HsInitiator, HsResponder
  <2>2. \A a, n, i : ~KnowsInitiator(a, n, i)
    BY <1>2, <2>1 DEF KnowsInitiator
  <2>3. \A a, n, r, i : ~KnowsResponder(a, n, r, i)
    BY <1>2, <2>1 DEF KnowsResponder
  <2> QED BY <2>2, <2>3 DEF PairInv
<1> QED BY <1>1, <1>3, <1>4, <1>5 DEF PeersInv

\* The inductive invariant.
LEMMA PeersInvariant == Spec => []PeersInv
<1>1. PeersInv /\ [Next]_vars => PeersInv'
  BY TypesStep, DrawnStep, FreshStep, PairStep DEF PeersInv
<1> QED BY <1>1, InitPeers, PTL DEF Spec

\* An initiation makes one session on either side, unless a worker has applied what
\* another had overtaken (lastTimestamp and the ephemerals of ConsumeMessageInitiation).
THEOREM InitiationUsedOnce == Spec => []OneSessionPerInitiation
<1>1. PeersInv => OneSessionPerInitiation
  <2> SUFFICES ASSUME PeersInv, stale = {}, NEW d \in Devices,
                      NEW k \in derived[d], NEW l \in derived[d],
                      SubSeq(k.key, 1, 2) = SubSeq(l.key, 1, 2)
               PROVE k = l
    BY DEF OneSessionPerInitiation
  <2>1. k.key \in Responses /\ l.key \in Responses
    BY DEF PeersInv, Types, KeyTypes, KeysOk
  <2>2. <<k.key[1], k.key[2]>> = <<l.key[1], l.key[2]>>
    BY <2>1, ChainPrefix
  <2>3. SamePrefix(k.key, l.key)
    BY <2>2 DEF SamePrefix
  <2> QED BY <2>3 DEF PeersInv, FreshInv, Fresh
<1> QED BY <1>1, PeersInvariant, PTL

\* The two ends of a session have each other's index and opposite roles, unless a
\* worker has applied what another had overtaken (BeginSymmetricSession).
THEOREM SessionEndsAgree == Spec => []EndsAgree
<1>1. PeersInv => EndsAgree
  <2> SUFFICES ASSUME PeersInv, stale = {}, NEW d \in Devices,
                      NEW k \in derived[d], NEW l \in derived[Other(d)], k.key = l.key
               PROVE k.ri = l.li /\ k.li = l.ri /\ k.init # l.init
    BY DEF EndsAgree
  <2>1. PICK e \in Devices : e = Other(d) /\ e # d /\ Other(e) = d
    BY Others
  <2>2. /\ k.key \in Responses /\ k.init \in BOOLEAN /\ l.init \in BOOLEAN
        /\ k.key[1] = (IF k.init THEN d ELSE e)
        /\ k.key[1] = (IF l.init THEN e ELSE d)
    BY <2>1 DEF PeersInv, Types, KeyTypes, KeysOk, IsKeypair
  <2>3. k.init # l.init /\ k.key[1] \in {d, e}
    BY <2>1, <2>2
  <2>4. PICK a, n, r : a = k.key[1] /\ n = k.key[2] /\ k.key = <<a, n, r>>
    BY <2>2, ChainsOf
  <2>5. \A i : KeyInitiator(d, k, a, n, i) \/ KeyInitiator(e, l, a, n, i) => KnowsInitiator(a, n, i)
    BY <2>1 DEF KnowsInitiator
  <2>6. \A i : KeyResponder(d, k, a, n, r, i) \/ KeyResponder(e, l, a, n, r, i) =>
                 KnowsResponder(a, n, r, i)
    BY <2>1 DEF KnowsResponder
  <2>7. CASE a = d
    <3>1. KnowsInitiator(a, n, k.li) /\ KnowsInitiator(a, n, l.ri)
      BY <2>1, <2>4, <2>5, <2>7 DEF KeyInitiator
    <3>2. KnowsResponder(a, n, r, k.ri) /\ KnowsResponder(a, n, r, l.li)
      BY <2>1, <2>4, <2>6, <2>7 DEF KeyResponder
    <3> QED BY <2>3, <3>1, <3>2 DEF PeersInv, PairInv
  <2>8. CASE a = e
    <3>1. KnowsInitiator(a, n, k.ri) /\ KnowsInitiator(a, n, l.li)
      BY <2>1, <2>4, <2>5, <2>8 DEF KeyInitiator
    <3>2. KnowsResponder(a, n, r, k.li) /\ KnowsResponder(a, n, r, l.ri)
      BY <2>1, <2>4, <2>6, <2>8 DEF KeyResponder
    <3> QED BY <2>3, <3>1, <3>2 DEF PeersInv, PairInv
  <2> QED BY <2>3, <2>4, <2>7, <2>8
<1> QED BY <1>1, PeersInvariant, PTL
=============================================================================
