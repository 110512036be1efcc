-------------------------- MODULE WgOutboundProofs --------------------------
(***************************************************************************)
(* The proofs about what a WireGuard device sends, WgOutbound: no nonce is *)
(* drawn twice, and no buffer has two owners.                              *)
(***************************************************************************)
EXTENDS WgOutbound, FiniteSetTheorems, TLAPS

-----------------------------------------------------------------------------
(***************************************************************************)
(* No nonce is drawn twice, for any number of goroutines, packets, keys    *)
(* and restarts.  sendNonce may pass RejectAfterMessages by one for every  *)
(* goroutine that is about to store it back, and that never brings it to   *)
(* zero while somebody could still draw.                                   *)
(***************************************************************************)

\* The goroutines that drew past the limit and have not stored it back.
Past(k) == {c \in Callers : caller[c].pc = "exhausted" /\ caller[c].key = k}

Fields == {"pc", "key", "box", "good", "late", "ooo", "priority"}

\* Who has a container to seal, or has packets to stage again, has a key.
Formed(r) ==
    /\ DOMAIN r = Fields
    /\ r.ooo \/ r.pc \in {"take", "nonce", "exhausted", "dispatch", "priority", "outbound",
                          "encryption"} => r.key \in Keys

Types ==
    /\ DOMAIN caller = Callers /\ \A c \in Callers : Formed(caller[c])
    /\ made \in Nat /\ made <= MaxKeys /\ current \in Nat /\ current <= made
    /\ sendNonce \in [Keys -> Nat]
    /\ drawn \in [Keys -> [0..(Reject - 1) -> Nat]]

\* Nothing at or above the counter was drawn; unless everybody is about to store
\* the limit back, when the counter may have wrapped.
Ahead(k) ==
    \/ /\ sendNonce[k] <= Reject + Cardinality(Past(k))
       /\ \A n \in 0..(Reject - 1) : n >= sendNonce[k] => drawn[k][n] = 0
    \/ Past(k) = Callers

NInv == Types /\ NonceOnce /\ \A k \in Keys : Ahead(k)

\* Less than the modulus is left alone by it.
LEMMA ModSmall == ASSUME NEW x \in Nat, NEW m \in Nat, x < m PROVE x % m = x
  OBVIOUS

\* What is left is a number.
LEMMA ModNat == ASSUME NEW x \in Nat, NEW m \in Nat \ {0} PROVE x % m \in Nat
  OBVIOUS

\* The fields of an idle goroutine.
LEMMA IdleFormed == Formed(Idle) /\ Idle.pc = "idle" /\ ~Idle.ooo
  BY DEF Formed, Idle, Fields

\* Past is finite, and without c there is at least one fewer than Callers.
LEMMA PastCount ==
    ASSUME NEW k
    PROVE  /\ IsFiniteSet(Past(k)) /\ Cardinality(Past(k)) \in Nat /\ Cardinality(Callers) \in Nat
           /\ \A c \in Callers : c \notin Past(k) =>
                /\ Cardinality(Past(k)) + 1 <= Cardinality(Callers)
                /\ Cardinality(Past(k)) + 1 = Cardinality(Callers) => Past(k) \union {c} = Callers
<1>1. Past(k) \subseteq Callers /\ IsFiniteSet(Callers)
  BY OutboundAssumption DEF Past
<1>2. IsFiniteSet(Past(k)) /\ Cardinality(Past(k)) \in Nat /\ Cardinality(Callers) \in Nat
  BY <1>1, FS_Subset, FS_CardinalityType
<1>3. ASSUME NEW c \in Callers, c \notin Past(k)
      PROVE  /\ Cardinality(Past(k)) + 1 <= Cardinality(Callers)
             /\ Cardinality(Past(k)) + 1 = Cardinality(Callers) => Past(k) \union {c} = Callers
  <2>1. Past(k) \union {c} \subseteq Callers
    BY <1>1
  <2>2. Cardinality(Past(k) \union {c}) = Cardinality(Past(k)) + 1
    BY <1>2, <1>3, FS_AddElement, Zenon
  <2> QED BY <1>1, <2>1, <2>2, FS_Subset
<1> QED BY <1>2, <1>3

\* A new peer satisfies the invariant.
LEMMA InitNonce == Init => NInv
<1> SUFFICES ASSUME Init PROVE NInv
  OBVIOUS
<1>1. Types
  BY OutboundAssumption, IdleFormed DEF Init, Types, Keys
<1>2. NonceOnce /\ \A k \in Keys : \A n \in 0..(Reject - 1) : drawn[k][n] = 0
  BY OutboundAssumption DEF Init, NonceOnce
<1>3. \A k \in Keys : sendNonce[k] <= Reject + Cardinality(Past(k))
  BY OutboundAssumption, PastCount DEF Init
<1> QED BY <1>1, <1>2, <1>3 DEF NInv, Ahead

\* A step of a goroutine that draws no nonce and stores none back.
LEMMA QuietStep ==
    ASSUME NInv, NEW c \in Callers, NEW s, Become(c, s), Formed(s), s.pc # "exhausted",
           caller[c].pc # "exhausted", UNCHANGED <<made, current, sendNonce, drawn>>
    PROVE  NInv'
<1>1. /\ DOMAIN caller' = Callers /\ caller'[c] = s
      /\ \A d \in Callers \ {c} : caller'[d] = caller[d]
  BY DEF Become, NInv, Types
<1>2. \A k \in Keys : Past(k)' = Past(k)
  BY <1>1 DEF Past
<1>3. Types'
  BY <1>1 DEF NInv, Types, Formed
<1>4. NonceOnce' /\ \A k \in Keys : Ahead(k)'
  BY <1>2 DEF NInv, NonceOnce, Ahead
<1> QED BY <1>3, <1>4 DEF NInv

\* A step that leaves goroutines and nonces alone.
LEMMA OtherStep ==
    ASSUME NInv, UNCHANGED <<caller, sendNonce, drawn>>,
           made' \in Nat, made' <= MaxKeys, current' \in Nat, current' <= made'
    PROVE  NInv'
<1>1. Types'
  BY DEF NInv, Types
<1>2. \A k \in Keys : Past(k)' = Past(k)
  BY DEF Past
<1> QED BY <1>1, <1>2 DEF NInv, NonceOnce, Ahead

\* The drawn nonce was not drawn before; past the limit the goroutine draws none.
LEMMA DrawStep ==
    ASSUME NInv, NEW c \in Callers, AddNonce(c) PROVE NInv'
<1>0. PICK k, n, M : k = caller[c].key /\ n = sendNonce[k] /\ M = 2 ^ NonceBits
  OBVIOUS
<1>1. /\ caller[c].pc = "nonce" /\ k \in Keys /\ n \in Nat /\ M \in Nat
      /\ DOMAIN caller[c] = Fields /\ c \notin Past(k)
      /\ Reject \in Nat \ {0} /\ Reject + Cardinality(Callers) <= M
  BY <1>0, OutboundAssumption DEF AddNonce, At, NInv, Types, Formed, Past
<1>2. /\ n <= Reject + Cardinality(Past(k))
      /\ \A i \in 0..(Reject - 1) : i >= n => drawn[k][i] = 0
  BY <1>0, <1>1 DEF NInv, Ahead
<1>3. /\ n + 1 <= M
      /\ n + 1 = M => n >= Reject /\ Past(k) \union {c} = Callers
  BY <1>1, <1>2, PastCount
<1>4. n + 1 # M => (n + 1) % M = n + 1
  BY <1>1, <1>3, ModSmall
<1>5. (n + 1) % M \in Nat
  BY <1>1, <1>3, ModNat
<1>6. /\ UNCHANGED <<made, current>>
      /\ sendNonce' \in [Keys -> Nat] /\ sendNonce'[k] = (n + 1) % M
      /\ \A j \in Keys : j # k => sendNonce'[j] = sendNonce[j]
  <2>1. sendNonce' = [sendNonce EXCEPT ![k] = (n + 1) % M] /\ UNCHANGED <<made, current>>
    BY <1>0, Zenon DEF AddNonce
  <2> QED BY <1>1, <1>5, <2>1 DEF NInv, Types
<1>7. CASE n >= Reject
  <2> DEFINE s == [caller[c] EXCEPT !.pc = "exhausted", !.box = Tail(@),
                                    !.late = Append(@, Head(caller[c].box))]
  <2>1. caller' = [caller EXCEPT ![c] = s] /\ drawn' = drawn
    BY <1>0, <1>7 DEF AddNonce, Become
  <2>2. DOMAIN s = Fields /\ s.pc = "exhausted" /\ s.key = k
    BY <1>0, <1>1 DEF Fields
  <2> HIDE DEF s
  <2>3. /\ DOMAIN caller' = Callers /\ caller'[c] = s
        /\ \A d \in Callers \ {c} : caller'[d] = caller[d]
    BY <2>1 DEF NInv, Types
  <2>4. Types'
    BY <1>1, <1>6, <2>1, <2>2, <2>3 DEF NInv, Types, Formed
  <2>5. Past(k)' = Past(k) \union {c} /\ \A j \in Keys : j # k => Past(j)' = Past(j)
    BY <1>0, <1>1, <2>2, <2>3 DEF Past
  <2>6. Cardinality(Past(k) \union {c}) = Cardinality(Past(k)) + 1
    BY <1>1, PastCount, FS_AddElement, Zenon
  <2>7. \A j \in Keys : j # k => Ahead(j)'
    BY <1>6, <2>1, <2>5 DEF NInv, Ahead
  <2>8. CASE n + 1 = M
    <3>1. Ahead(k)'
      BY <1>3, <2>5, <2>8 DEF Ahead
    <3> QED BY <2>1, <2>4, <2>7, <3>1 DEF NInv, NonceOnce
  <2>9. CASE n + 1 # M
    <3>1. sendNonce'[k] = n + 1
      BY <1>4, <1>6, <2>9
    <3>2. Ahead(k)'
      BY <1>1, <1>2, <2>1, <2>5, <2>6, <3>1, <1>7, PastCount DEF Ahead
    <3> QED BY <2>1, <2>4, <2>7, <3>2 DEF NInv, NonceOnce
  <2> QED BY <2>8, <2>9
<1>8. CASE n < Reject
  <2> DEFINE s == [caller[c] EXCEPT !.box = Tail(@), !.good = Append(@, Head(caller[c].box))]
  <2>1. caller' = [caller EXCEPT ![c] = s] /\ drawn' = [drawn EXCEPT ![k][n] = @ + 1]
    BY <1>0, <1>1, <1>8 DEF AddNonce, Become
  <2>2. DOMAIN s = Fields /\ s.pc = "nonce" /\ s.key = k
    BY <1>0, <1>1 DEF Fields
  <2> HIDE DEF s
  <2>3. /\ DOMAIN caller' = Callers /\ caller'[c] = s
        /\ \A d \in Callers \ {c} : caller'[d] = caller[d]
    BY <2>1 DEF NInv, Types
  <2>4. n \in 0..(Reject - 1) /\ drawn[k][n] = 0
    BY <1>1, <1>2, <1>8
  <2>5. /\ drawn' \in [Keys -> [0..(Reject - 1) -> Nat]] /\ drawn'[k][n] = 1
        /\ \A i \in 0..(Reject - 1) : i # n => drawn'[k][i] = drawn[k][i]
        /\ \A j \in Keys : j # k => drawn'[j] = drawn[j]
    BY <1>1, <2>1, <2>4 DEF NInv, Types
  <2>6. Types'
    <3>1. Formed(s)
      BY <1>1, <2>2 DEF Formed
    <3>2. \A d \in Callers : Formed(caller'[d])
      BY <2>3, <3>1 DEF NInv, Types
    <3>3. made' = made /\ current' = current
      BY <1>6
    <3> HIDE DEF s
    <3> QED BY <1>6, <2>3, <2>5, <3>2, <3>3 DEF NInv, Types
  <2>7. \A j \in Keys : Past(j)' = Past(j)
    BY <1>0, <1>1, <2>2, <2>3 DEF Past
  <2>8. NonceOnce'
    BY <2>5 DEF NInv, NonceOnce
  <2>9. sendNonce'[k] = n + 1
    BY <1>1, <1>3, <1>4, <1>6, <1>8
  <2>10. Ahead(k)'
    <3>1. Cardinality(Past(k)) \in Nat /\ Past(k)' = Past(k)
      BY <1>1, <2>7, PastCount
    <3>2. sendNonce'[k] <= Reject + Cardinality(Past(k))
      BY <1>1, <1>8, <2>9, <3>1
    <3>3. \A i \in 0..(Reject - 1) : i >= sendNonce'[k] => drawn'[k][i] = 0
      <4> SUFFICES ASSUME NEW i \in 0..(Reject - 1), i >= n + 1 PROVE drawn'[k][i] = 0
        BY <2>9
      <4>1. i # n /\ i >= n
        BY <1>1
      <4>2. drawn[k][i] = 0
        BY <1>1, <1>2, <1>8, <4>1
      <4> QED BY <2>5, <4>1, <4>2
    <3> QED BY <3>1, <3>2, <3>3 DEF Ahead
  <2>11. \A j \in Keys : j # k => Ahead(j)'
    BY <1>6, <2>5, <2>7 DEF NInv, Ahead
  <2> QED BY <2>6, <2>8, <2>10, <2>11 DEF NInv
<1> QED BY <1>1, <1>7, <1>8

\* A goroutine that drew past the limit stores it back.
LEMMA StoreStep ==
    ASSUME NInv, NEW c \in Callers, Exhausted(c) PROVE NInv'
<1>0. PICK k : k = caller[c].key
  OBVIOUS
<1> DEFINE s == [caller[c] EXCEPT !.pc = "nonce"]
<1>1. /\ caller[c].pc = "exhausted" /\ k \in Keys /\ DOMAIN caller[c] = Fields
      /\ Reject \in Nat /\ c \in Past(k)
  BY <1>0, OutboundAssumption DEF Exhausted, At, NInv, Types, Formed, Past
<1>2. DOMAIN s = Fields /\ s.pc = "nonce" /\ s.key = k
  BY <1>0, <1>1 DEF Fields
<1>3. /\ sendNonce' = [sendNonce EXCEPT ![k] = Reject] /\ caller' = [caller EXCEPT ![c] = s]
      /\ UNCHANGED <<made, current, drawn>>
  BY <1>0 DEF Exhausted, Goto, Become
<1> HIDE DEF s
<1>4. /\ DOMAIN caller' = Callers /\ caller'[c] = s
      /\ \A d \in Callers \ {c} : caller'[d] = caller[d]
  BY <1>3 DEF NInv, Types
<1>5. /\ sendNonce' \in [Keys -> Nat] /\ sendNonce'[k] = Reject
      /\ \A j \in Keys : j # k => sendNonce'[j] = sendNonce[j]
  BY <1>1, <1>3 DEF NInv, Types
<1>6. Types'
  BY <1>1, <1>2, <1>3, <1>4, <1>5 DEF NInv, Types, Formed
<1>7. \A j \in Keys : j # k => Past(j)' = Past(j)
  BY <1>0, <1>1, <1>2, <1>4 DEF Past
<1>8. \A j \in Keys : j # k => Ahead(j)'
  BY <1>3, <1>5, <1>7 DEF NInv, Ahead
<1>9. Past(k)' = Past(k) \ {c}
  BY <1>0, <1>1, <1>2, <1>4 DEF Past
<1>10. Cardinality(Past(k) \ {c}) \in Nat
  BY PastCount, FS_RemoveElement, FS_CardinalityType, FS_Subset
<1>11. Ahead(k)'
  BY <1>1, <1>5, <1>9, <1>10 DEF Ahead
<1> QED BY <1>3, <1>6, <1>8, <1>11 DEF NInv, NonceOnce

\* ExpireCurrentKeypairs leaves the key without nonces.
LEMMA ExpireStep ==
    ASSUME NInv, ExpireCurrentKeypairs PROVE NInv'
<1>0. PICK k : k = current
  OBVIOUS
<1>1. k \in Keys /\ Reject \in Nat
  BY <1>0, OutboundAssumption DEF ExpireCurrentKeypairs, NInv, Types, Keys
<1>2. /\ sendNonce' \in [Keys -> Nat] /\ sendNonce'[k] = Reject
      /\ \A j \in Keys : j # k => sendNonce'[j] = sendNonce[j]
      /\ UNCHANGED <<caller, made, current, drawn>>
  BY <1>0, <1>1 DEF ExpireCurrentKeypairs, NInv, Types
<1>3. \A j \in Keys : Past(j)' = Past(j)
  BY <1>2 DEF Past
<1>4. \A j \in Keys : Ahead(j)'
  BY <1>1, <1>2, <1>3, PastCount DEF NInv, Ahead
<1>5. Types'
  BY <1>2 DEF NInv, Types
<1> QED BY <1>2, <1>4, <1>5 DEF NInv, NonceOnce

\* The other steps of a goroutine keep or drop its key.
LEMMA CallStep ==
    ASSUME NInv, NEW c \in Callers, Input(c) \/ Keepalive(c) \/ Priority(c) \/ Call(c) PROVE NInv'
<1> DEFINE r == caller[c]
<1>1. Formed(r) /\ DOMAIN r = Fields
  BY DEF NInv, Types, Formed
<1>2. \A pc : LET s == [r EXCEPT !.pc = pc] IN
        DOMAIN s = Fields /\ s.pc = pc /\ s.key = r.key /\ s.ooo = r.ooo
  BY <1>1 DEF Fields
<1>3. ASSUME NEW pc, Goto(c, pc), r.pc # "exhausted", UNCHANGED <<made, current, sendNonce, drawn>>,
             pc \in {"stage", "push", "top"} \/ r.key \in Keys, pc # "exhausted",
             pc \in {"stage", "push", "top", "dispatch", "priority", "outbound", "encryption"}
      PROVE  NInv'
  <2> DEFINE s == [r EXCEPT !.pc = pc]
  <2>1. Formed(s) /\ s.pc = pc
    BY <1>1, <1>2, <1>3 DEF Formed
  <2> QED BY <1>3, <2>1, QuietStep, Zenon DEF Goto
<1>4. ASSUME Become(c, Idle), r.pc # "exhausted", UNCHANGED <<made, current, sendNonce, drawn>>
      PROVE  NInv'
  BY <1>4, IdleFormed, QuietStep
<1>5. Usable(current) => current \in Keys
  BY OutboundAssumption DEF Usable, NInv, Types, Keys
<1>6. CASE Input(c)
  <2>1. PICK box : Become(c, [Idle EXCEPT !.pc = "running", !.box = box])
    BY <1>6, Zenon DEF Input
  <2>2. LET s == [Idle EXCEPT !.pc = "running", !.box = box] IN Formed(s) /\ s.pc = "running"
    BY DEF Idle, Formed, Fields
  <2> QED BY <1>6, <2>1, <2>2, QuietStep, Zenon DEF Input, At
<1>7. CASE Keepalive(c)
  <2>1. CASE Goto(c, "top")
    BY <1>3, <1>7, <2>1, Zenon DEF Keepalive, At
  <2>2. ASSUME NEW p, Become(c, [Idle EXCEPT !.pc = "keepalive", !.box = <<p>>]) PROVE NInv'
    <3>1. LET s == [Idle EXCEPT !.pc = "keepalive", !.box = <<p>>]
          IN  Formed(s) /\ s.pc = "keepalive"
      BY DEF Idle, Formed, Fields
    <3> QED BY <1>7, <2>2, <3>1, QuietStep, Zenon DEF Keepalive, At
  <2> QED BY <1>7, <2>1, <2>2, Zenon DEF Keepalive
<1>8. CASE Priority(c)
  <2>1. PICK p : Become(c, [Idle EXCEPT !.pc = "nonce", !.key = current, !.box = <<p>>,
                                        !.priority = TRUE])
    BY <1>8, Zenon DEF Priority
  <2>2. LET s == [Idle EXCEPT !.pc = "nonce", !.key = current, !.box = <<p>>, !.priority = TRUE]
        IN  DOMAIN s = Fields /\ s.pc = "nonce" /\ s.key = current
    BY DEF Idle, Fields
  <2>3. LET s == [Idle EXCEPT !.pc = "nonce", !.key = current, !.box = <<p>>, !.priority = TRUE]
        IN  Formed(s)
    BY <1>5, <1>8, <2>2, Zenon DEF Formed, Priority
  <2> QED BY <1>8, <2>1, <2>2, <2>3, QuietStep, Zenon DEF Priority, At
<1>9. CASE CheckRunning(c) \/ CountStaged(c) \/ CountKeepalive(c)
  BY <1>3, <1>4, <1>9 DEF CheckRunning, CountStaged, CountKeepalive, At
<1>10. CASE PushStaged(c)
  <2> DEFINE s == [r EXCEPT !.box = <<>>, !.pc = IF r.ooo THEN "dispatch" ELSE "top"]
  <2>1. /\ r.pc = "push" /\ UNCHANGED <<made, current, sendNonce, drawn>>
        /\ Become(c, s) \/ UNCHANGED caller
    BY <1>10 DEF PushStaged, At
  <2>2. /\ DOMAIN s = Fields /\ s.key = r.key /\ s.ooo = r.ooo
        /\ s.pc = IF r.ooo THEN "dispatch" ELSE "top"
    BY <1>1 DEF Fields
  <2> HIDE DEF s
  <2>3. Formed(s) /\ s.pc # "exhausted"
    BY <1>1, <2>2 DEF Formed
  <2>4. UNCHANGED caller => NInv'
    BY <2>1, OtherStep DEF NInv, Types
  <2> QED BY <2>1, <2>3, <2>4, QuietStep
<1>11. CASE PushKeepalive(c)
  <2>1. \A pc \in {"count", "top"} : LET s == [Idle EXCEPT !.pc = pc] IN Formed(s) /\ s.pc = pc
    BY DEF Idle, Formed, Fields
  <2> QED BY <1>11, <2>1, QuietStep, Zenon DEF PushKeepalive, At
<1>12. CASE Top(c)
  <2> DEFINE s == [Idle EXCEPT !.pc = "take", !.key = current]
  <2>1. DOMAIN s = Fields /\ s.pc = "take" /\ s.key = current
    BY DEF Idle, Fields
  <2>2. Usable(current) => Formed(s)
    BY <1>5, <2>1 DEF Formed
  <2> QED BY <1>4, <1>12, <2>1, <2>2, QuietStep, Zenon DEF Top, At
<1>13. CASE Take(c)
  <2> DEFINE s == [r EXCEPT !.pc = "nonce", !.box = Head(staged)]
  <2>1. /\ r.pc = "take" /\ UNCHANGED <<made, current, sendNonce, drawn>>
        /\ Become(c, Idle) \/ Become(c, s)
    BY <1>13 DEF Take, At
  <2>2. DOMAIN s = Fields /\ s.pc = "nonce" /\ s.key = r.key
    BY <1>1 DEF Fields
  <2> HIDE DEF s
  <2>3. Formed(s)
    BY <1>1, <2>1, <2>2 DEF Formed
  <2> QED BY <1>4, <2>1, <2>2, <2>3, QuietStep
<1>14. CASE Restage(c)
  <2> DEFINE s == [r EXCEPT !.pc = "stage", !.box = r.late, !.late = <<>>, !.ooo = TRUE]
  <2>1. /\ r.pc = "nonce" /\ UNCHANGED <<made, current, sendNonce, drawn>>
        /\ Goto(c, "dispatch") \/ Become(c, Idle) \/ Become(c, s)
    BY <1>14 DEF Restage, At
  <2>2. DOMAIN s = Fields /\ s.pc = "stage" /\ s.key = r.key
    BY <1>1 DEF Fields
  <2>3. r.key \in Keys
    BY <1>1, <2>1 DEF Formed
  <2> HIDE DEF s
  <2>4. Formed(s)
    BY <2>2, <2>3 DEF Formed
  <2> QED BY <1>3, <1>4, <2>1, <2>2, <2>3, <2>4, QuietStep
<1>15. ASSUME r.pc \in {"dispatch", "encryption"}, Become(c, Again(r)),
              UNCHANGED <<made, current, sendNonce, drawn>>
       PROVE  NInv'
  <2>1. r.key \in Keys
    BY <1>1, <1>15 DEF Formed
  <2>2. /\ DOMAIN Again(r) = Fields /\ Again(r).pc \in {"idle", "top", "take"}
        /\ ~Again(r).ooo /\ (Again(r).pc = "take" => Again(r).key = r.key)
    BY DEF Again, Idle, Fields
  <2>3. Formed(Again(r))
    BY <2>1, <2>2 DEF Formed
  <2> QED BY <1>15, <2>2, <2>3, QuietStep
<1>16. CASE Dispatch(c)
  <2>1. r.pc = "dispatch" /\ r.key \in Keys
    BY <1>1, <1>16 DEF Dispatch, At, Formed
  <2> QED BY <1>3, <1>15, <1>16, <2>1 DEF Dispatch
<1>17. CASE CountPriority(c) \/ ToOutbound(c)
  <2>1. r.pc \in {"priority", "outbound"} /\ r.key \in Keys
    BY <1>1, <1>17 DEF CountPriority, ToOutbound, At, Formed
  <2> QED BY <1>3, <1>17, <2>1 DEF CountPriority, ToOutbound
<1>18. CASE ToEncryption(c)
  BY <1>15, <1>18 DEF ToEncryption, At
<1> QED BY <1>6, <1>7, <1>8, <1>9, <1>10, <1>11, <1>12, <1>13, <1>14, <1>16, <1>17, <1>18,
           DrawStep, StoreStep DEF Call

\* Every step keeps the invariant.
LEMMA StepNonce == NInv /\ [Next]_vars => NInv'
<1> SUFFICES ASSUME NInv, [Next]_vars PROVE NInv'
  OBVIOUS
<1>1. made \in Nat /\ made <= MaxKeys /\ current \in Nat /\ current <= made /\ MaxKeys \in Nat
  BY OutboundAssumption DEF NInv, Types
<1>2. CASE Work \/ Send
  BY <1>1, <1>2, OtherStep DEF Work, Encrypt, Send, SenderTake, SenderDone
<1>3. CASE NewKeypair
  BY <1>1, <1>3, OtherStep DEF NewKeypair
<1>4. CASE StopBegin \/ TimerExpires \/ StopGoesOn
  BY <1>1, <1>4, OtherStep DEF StopBegin, TimerExpires, StopGoesOn, StopSignal, StopZero, Flush
<1>5. CASE StartReset \/ StartGoesOn
  BY <1>1, <1>5, OtherStep DEF StartReset, StartGoesOn, StartFlush, StartRun, life
<1>6. CASE UNCHANGED vars
  BY <1>1, <1>6, OtherStep DEF vars
<1> QED BY <1>2, <1>3, <1>4, <1>5, <1>6, CallStep, ExpireStep DEF Next

\* NonceOnce for any number of goroutines, packets, keypairs, restarts and any
\* limit that leaves each goroutine one draw before the counter wraps.
THEOREM NoncesDiffer == Spec => []NonceOnce
<1>1. NInv => NonceOnce
  BY DEF NInv
<1> QED BY <1>1, InitNonce, StepNonce, PTL DEF Spec

-----------------------------------------------------------------------------
(***************************************************************************)
(* A buffer has one owner.  The sets of packets in the hands of each       *)
(* goroutine, staged, outbound and with the sender are disjoint.  For a    *)
(* step to keep them so, no container may hold a packet twice, the sender  *)
(* may have nothing while it does not wait, and must be gone when Start    *)
(* runs a new one; and a container is let go by its goroutine in the step  *)
(* that queues it.                                                         *)
(***************************************************************************)

\* What a goroutine with record r still owns: nothing once its container is outbound.
Hand(r) ==
    IF r.pc = "encryption" THEN {} ELSE UNION {Range(r.box), Range(r.good), Range(r.late)}

\* No packet is in two containers of a queue.
Disjointed(q) == \A i, j \in DOMAIN q : i # j => Range(q[i]) \intersect Range(q[j]) = {}

\* A goroutine holds no packet twice, and sends no empty container on.
Tidy(r) ==
    /\ DOMAIN r = Fields
    /\ r.box \in Seq(Packets) /\ r.good \in Seq(Packets) /\ r.late \in Seq(Packets)
    /\ IsInjective(r.box) /\ IsInjective(r.late)
    /\ Range(r.box) \intersect Range(r.good) = {}
    /\ Range(r.box) \intersect Range(r.late) = {}
    /\ Range(r.good) \intersect Range(r.late) = {}
    /\ r.pc \in {"priority", "outbound"} => r.good # <<>>

\* The same of the queues; what is staged has no packet twice.
Queues ==
    /\ staged \in Seq(Seq(Packets)) /\ outbound \in Seq(Seq(Packets))
    /\ Disjointed(staged) /\ Disjointed(outbound) /\ \A box \in Range(staged) : IsInjective(box)

\* The sender has a container only while it waits for it, and is gone from the
\* moment the keys are zeroed until Start runs it again; a container that is being
\* filled is outbound or with the sender.
Sending ==
    /\ DOMAIN sender = {"pc", "box"} /\ sender.box \in Seq(Packets)
    /\ sender.pc # "wait" => sender.box = Nil
    /\ closer \in {"zeroed", "stopped", "flush"} => sender.pc = "stopped"
    /\ \A box \in filling : box # Nil /\ (box = sender.box \/ box \in Range(outbound))

\* The goroutines, what is staged (S), outbound (O) and with the sender (B) share
\* no packet.
Owners(S, O, B) ==
    /\ \A c, d \in Callers : c # d => Hand(caller[c]) \intersect Hand(caller[d]) = {}
    /\ \A c \in Callers : Hand(caller[c]) \intersect (S \union O \union B) = {}
    /\ S \intersect O = {} /\ S \intersect B = {} /\ O \intersect B = {}

\* The inductive invariant of OneOwner.
OwnInv ==
    /\ DOMAIN caller = Callers /\ \A c \in Callers : Tidy(caller[c])
    /\ Queues /\ Sending
    /\ Owners(AllElems(staged), AllElems(outbound), Range(sender.box))

-----------------------------------------------------------------------------
\* What a longer sequence holds.
LEMMA RangeAppend ==
    ASSUME NEW S, NEW s \in Seq(S), NEW e \in S
    PROVE  Append(s, e) \in Seq(S) /\ Range(Append(s, e)) = Range(s) \union {e}
<1>1. /\ Append(s, e) \in Seq(S) /\ DOMAIN Append(s, e) = 1..(Len(s) + 1)
      /\ DOMAIN s = 1..Len(s) /\ Len(s) \in Nat
      /\ Append(s, e)[Len(s) + 1] = e /\ \A i \in 1..Len(s) : Append(s, e)[i] = s[i]
  OBVIOUS
<1>2. \A i \in 1..(Len(s) + 1) : i \in 1..Len(s) \/ i = Len(s) + 1
  BY <1>1
<1>3. Len(s) + 1 \in 1..(Len(s) + 1) /\ \A i \in 1..Len(s) : i \in 1..(Len(s) + 1)
  BY <1>1
<1> QED BY <1>1, <1>2, <1>3, Zenon DEF Range

\* What a sequence without its head holds.
LEMMA RangeTail ==
    ASSUME NEW S, NEW s \in Seq(S), s # <<>>
    PROVE  /\ Head(s) \in S /\ Tail(s) \in Seq(S)
           /\ Range(s) = {Head(s)} \union Range(Tail(s))
<1>1. /\ Head(s) \in S /\ Tail(s) \in Seq(S) /\ Len(s) \in Nat
      /\ DOMAIN s = 1..Len(s) /\ DOMAIN Tail(s) = 1..(Len(s) - 1)
      /\ Head(s) = s[1] /\ 1 \in 1..Len(s)
      /\ \A i \in 1..(Len(s) - 1) : Tail(s)[i] = s[i + 1] /\ i + 1 \in 1..Len(s)
  OBVIOUS
<1>2. ASSUME NEW i \in 1..Len(s), i # 1 PROVE s[i] \in Range(Tail(s))
  <2>1. i - 1 \in 1..(Len(s) - 1) /\ Tail(s)[i - 1] = s[i]
    BY <1>1, <1>2
  <2> QED BY <1>1, <2>1, Zenon DEF Range
<1>3. Range(s) = {s[i] : i \in 1..Len(s)} /\ Range(Tail(s)) = {Tail(s)[i] : i \in 1..(Len(s) - 1)}
  BY <1>1, Zenon DEF Range
<1>4. Range(s) \subseteq {Head(s)} \union Range(Tail(s))
  BY <1>1, <1>2, <1>3, Zenon
<1>5. {Head(s)} \union Range(Tail(s)) \subseteq Range(s)
  BY <1>1, <1>3, Zenon
<1> QED BY <1>1, <1>4, <1>5

\* A sequence without repetitions has none without its head.
LEMMA OnceTail ==
    ASSUME NEW S, NEW s \in Seq(S), s # <<>>, IsInjective(s)
    PROVE  IsInjective(Tail(s)) /\ Head(s) \notin Range(Tail(s))
<1>1. /\ Tail(s) \in Seq(S) /\ Len(Tail(s)) = Len(s) - 1 /\ Head(s) = s[1]
      /\ \A i \in 1..Len(Tail(s)) : Tail(s)[i] = s[i + 1] /\ i + 1 \in 1..Len(s)
  OBVIOUS
<1>2. IsInjective(Tail(s))
  BY <1>1 DEF IsInjective
<1>3. Head(s) \notin Range(Tail(s))
  BY <1>1 DEF IsInjective, Range
<1> QED BY <1>2, <1>3

\* It has none with a new element.
LEMMA OnceAppend ==
    ASSUME NEW S, NEW s \in Seq(S), NEW e \in S, IsInjective(s), e \notin Range(s)
    PROVE  IsInjective(Append(s, e))
  BY DEF IsInjective, Range

\* The packets of a queue with one more container.
LEMMA ElemsAppend ==
    ASSUME NEW q \in Seq(Seq(Packets)), NEW box \in Seq(Packets)
    PROVE  AllElems(Append(q, box)) = AllElems(q) \union Range(box)
<1>1. Range(Append(q, box)) = Range(q) \union {box}
  BY RangeAppend
<1> QED BY <1>1, Zenon DEF AllElems

\* The packets of a queue without its first container.
LEMMA ElemsTail ==
    ASSUME NEW q \in Seq(Seq(Packets)), q # <<>>
    PROVE  /\ Tail(q) \in Seq(Seq(Packets)) /\ Head(q) \in Seq(Packets)
           /\ Range(q) = {Head(q)} \union Range(Tail(q))
           /\ AllElems(q) = Range(Head(q)) \union AllElems(Tail(q))
<1>1. /\ Tail(q) \in Seq(Seq(Packets)) /\ Head(q) \in Seq(Packets)
      /\ Range(q) = {Head(q)} \union Range(Tail(q))
  BY RangeTail
<1> QED BY <1>1, Zenon DEF AllElems

\* The first container shares nothing with the rest, and the rest is disjointed.
LEMMA DisjointedTail ==
    ASSUME NEW q \in Seq(Seq(Packets)), q # <<>>, Disjointed(q)
    PROVE  Disjointed(Tail(q)) /\ Range(Head(q)) \intersect AllElems(Tail(q)) = {}
<1>1. /\ DOMAIN Tail(q) = 1..(Len(q) - 1) /\ DOMAIN q = 1..Len(q) /\ Len(q) \in Nat
      /\ Head(q) = q[1] /\ 1 \in 1..Len(q)
      /\ \A i \in 1..(Len(q) - 1) : Tail(q)[i] = q[i + 1] /\ i + 1 \in 1..Len(q) /\ i + 1 # 1
  OBVIOUS
<1>2. \A i, j \in 1..(Len(q) - 1) : i # j => i + 1 # j + 1
  BY <1>1
<1>3. Disjointed(Tail(q))
  <2> SUFFICES ASSUME NEW i \in 1..(Len(q) - 1), NEW j \in 1..(Len(q) - 1), i # j
               PROVE  Range(Tail(q)[i]) \intersect Range(Tail(q)[j]) = {}
    BY <1>1, Zenon DEF Disjointed
  <2>1. Tail(q)[i] = q[i + 1] /\ Tail(q)[j] = q[j + 1] /\ i + 1 \in 1..Len(q)
        /\ j + 1 \in 1..Len(q) /\ i + 1 # j + 1
    BY <1>1, <1>2
  <2> QED BY <1>1, <2>1, Zenon DEF Disjointed
<1>4. \A i \in 1..(Len(q) - 1) : Range(Head(q)) \intersect Range(Tail(q)[i]) = {}
  <2> TAKE i \in 1..(Len(q) - 1)
  <2>1. Tail(q)[i] = q[i + 1] /\ i + 1 \in 1..Len(q) /\ i + 1 # 1
    BY <1>1, Zenon
  <2> QED BY <1>1, <2>1, Zenon DEF Disjointed
<1>5. \A box \in Range(Tail(q)) : Range(Head(q)) \intersect Range(box) = {}
  <2>1. Range(Tail(q)) = {Tail(q)[i] : i \in 1..(Len(q) - 1)}
    BY <1>1, Zenon DEF Range
  <2> QED BY <1>4, <2>1, Zenon
<1> QED BY <1>3, <1>5, Zenon DEF AllElems

\* A container of packets new to the queue leaves it disjointed.
LEMMA DisjointedAppend ==
    ASSUME NEW q \in Seq(Seq(Packets)), NEW box \in Seq(Packets), Disjointed(q),
           Range(box) \intersect AllElems(q) = {}
    PROVE  Disjointed(Append(q, box))
<1>1. ASSUME NEW i \in 1..Len(q) PROVE Range(q[i]) \intersect Range(box) = {}
  <2>1. q[i] \in Range(q)
    BY DEF Range
  <2> QED BY <2>1, Zenon DEF AllElems
<1>2. /\ DOMAIN Append(q, box) = 1..(Len(q) + 1) /\ Append(q, box)[Len(q) + 1] = box
      /\ \A i \in 1..Len(q) : Append(q, box)[i] = q[i]
  OBVIOUS
<1> QED BY <1>1, <1>2 DEF Disjointed

\* A free buffer is in nobody's hands and in no queue.
LEMMA FreeIsFree ==
    /\ \A c \in Callers : Hand(caller[c]) \intersect Free = {}
    /\ Free \intersect AllElems(staged) = {} /\ Free \intersect AllElems(outbound) = {}
    /\ Free \intersect Range(sender.box) = {}
<1>1. \A c \in Callers : InHand(c) = Hand(caller[c])
  BY Zenon DEF InHand, Hand
<1> QED BY <1>1, Zenon DEF Free, Live

\* What is disjoint from four sets is disjoint from their union.
LEMMA FourApart ==
    ASSUME NEW S, NEW T, NEW U, NEW V, NEW X, S \intersect X = {}, T \intersect X = {},
           U \intersect X = {}, V \intersect X = {}
    PROVE  /\ (S \union T \union U \union V) \intersect X = {}
           /\ X \intersect (S \union T \union U \union V) = {}
  BY Zenon

\* The goroutine c, the two queues and the pool share nothing with the sender and
\* the other goroutines.
LEMMA OwnersApart ==
    ASSUME OwnInv, NEW c \in Callers
    PROVE  LET before == Hand(caller[c]) \union AllElems(staged) \union AllElems(outbound) \union Free
           IN  /\ before \intersect Range(sender.box) = {}
               /\ \A d \in Callers \ {c} : Hand(caller[d]) \intersect before = {}
<1> DEFINE S == AllElems(staged)  O == AllElems(outbound)  B == Range(sender.box)
           before == Hand(caller[c]) \union S \union O \union Free
<1>1. \A d \in Callers : /\ Hand(caller[d]) \intersect S = {} /\ Hand(caller[d]) \intersect O = {}
                         /\ Hand(caller[d]) \intersect B = {}
                         /\ Hand(caller[d]) \intersect Free = {}
                         /\ d # c => Hand(caller[d]) \intersect Hand(caller[c]) = {}
  BY FreeIsFree, Zenon DEF OwnInv, Owners
<1>2. S \intersect B = {} /\ O \intersect B = {} /\ Free \intersect B = {}
  BY FreeIsFree, Zenon DEF OwnInv, Owners
<1>3. before \intersect B = {}
  <2>1. Hand(caller[c]) \intersect B = {}
    BY <1>1
  <2> QED BY <1>2, <2>1, FourApart, Zenon
<1>4. ASSUME NEW d \in Callers \ {c} PROVE Hand(caller[d]) \intersect before = {}
  <2>1. /\ Hand(caller[c]) \intersect Hand(caller[d]) = {} /\ S \intersect Hand(caller[d]) = {}
        /\ O \intersect Hand(caller[d]) = {} /\ Free \intersect Hand(caller[d]) = {}
    <3>1. d \in Callers /\ d # c
      OBVIOUS
    <3> QED BY <1>1, <3>1, Zenon
  <2> QED BY <2>1, FourApart, Zenon
<1> QED BY <1>3, <1>4, Zenon

\* A step of a goroutine that moves packets only between its hands, the queues and
\* the pool, and never to two places.
LEMMA CallerMoves ==
    ASSUME OwnInv, NEW c \in Callers, NEW s, Become(c, s), Tidy(s), Queues', Sending',
           UNCHANGED sender,
           LET S == AllElems(staged')  O == AllElems(outbound')
               before == Hand(caller[c]) \union AllElems(staged) \union AllElems(outbound) \union Free
           IN  /\ Hand(s) \subseteq before /\ S \subseteq before /\ O \subseteq before
               /\ Hand(s) \intersect S = {} /\ Hand(s) \intersect O = {} /\ S \intersect O = {}
    PROVE  OwnInv'
<1> DEFINE S == AllElems(staged)  O == AllElems(outbound)  B == Range(sender.box)
           before == Hand(caller[c]) \union S \union O \union Free
<1>1. /\ DOMAIN caller' = Callers /\ caller'[c] = s
      /\ \A d \in Callers \ {c} : caller'[d] = caller[d]
  BY DEF Become, OwnInv
<1>2. before \intersect B = {} /\ \A d \in Callers \ {c} : Hand(caller[d]) \intersect before = {}
  BY OwnersApart, Zenon
<1>3. \A d \in Callers \ {c} : Hand(caller[d]) \intersect B = {}
  BY Zenon DEF OwnInv, Owners
<1>4. \A d \in Callers : Tidy(caller'[d])
  BY <1>1, Zenon DEF OwnInv
<1>5. \A d, e \in Callers : d # e => Hand(caller'[d]) \intersect Hand(caller'[e]) = {}
  <2> SUFFICES ASSUME NEW d \in Callers, NEW e \in Callers, d # e
               PROVE  Hand(caller'[d]) \intersect Hand(caller'[e]) = {}
    OBVIOUS
  <2>1. CASE d = c
    BY <1>1, <1>2, <2>1, Zenon
  <2>2. CASE e = c
    BY <1>1, <1>2, <2>2, Zenon
  <2>3. CASE d # c /\ e # c
    BY <1>1, <2>3, Zenon DEF OwnInv, Owners
  <2> QED BY <2>1, <2>2, <2>3
<1>6. \A d \in Callers : Hand(caller'[d]) \intersect (S' \union O' \union B') = {}
  <2> SUFFICES ASSUME NEW d \in Callers
               PROVE  Hand(caller'[d]) \intersect (S' \union O' \union B') = {}
    OBVIOUS
  <2>1. CASE d = c
    BY <1>1, <1>2, <2>1, Zenon
  <2>2. CASE d # c
    BY <1>1, <1>2, <1>3, <2>2, Zenon
  <2> QED BY <2>1, <2>2
<1>7. S' \intersect O' = {} /\ S' \intersect B' = {} /\ O' \intersect B' = {}
  BY <1>2, Zenon
<1>8. Owners(S, O, B)'
  BY <1>5, <1>6, <1>7, Zenon DEF Owners
<1> QED BY <1>1, <1>4, <1>8, Zenon DEF OwnInv

\* A step of a goroutine that gets packets from the pool only.
LEMMA CallerKeeps ==
    ASSUME OwnInv, NEW c \in Callers, NEW s, Become(c, s), Tidy(s),
           UNCHANGED <<queues, sender, closer>>,
           Hand(s) \subseteq Hand(caller[c]) \union Free
    PROVE  OwnInv'
<1>1. Queues' /\ Sending' /\ UNCHANGED <<staged, outbound, sender>>
  BY DEF OwnInv, Queues, Sending, queues
<1>2. /\ Hand(s) \intersect AllElems(staged) = {} /\ Hand(s) \intersect AllElems(outbound) = {}
      /\ AllElems(staged) \intersect AllElems(outbound) = {}
  BY FreeIsFree, Zenon DEF OwnInv, Owners
<1>3. staged' = staged /\ outbound' = outbound /\ UNCHANGED sender
  BY <1>1
<1> QED BY <1>1, <1>2, <1>3, CallerMoves, Zenon

\* No packet comes from nowhere, and none comes to be in two places.
Handover ==
    LET S == AllElems(staged')  O == AllElems(outbound')  B == Range(sender'.box)
        before == AllElems(staged) \union AllElems(outbound) \union Range(sender.box)
    IN  /\ S \subseteq before /\ O \subseteq before /\ B \subseteq before
        /\ S \intersect O = {} /\ S \intersect B = {} /\ O \intersect B = {}

\* A step of nobody's hands that hands packets over.
LEMMA OthersMove ==
    ASSUME OwnInv, UNCHANGED caller, Queues', Sending', Handover
    PROVE  OwnInv'
<1> DEFINE S == AllElems(staged)  O == AllElems(outbound)  B == Range(sender.box)
<1>1. \A c \in Callers : Hand(caller'[c]) \intersect (S' \union O' \union B') = {}
  BY Zenon DEF OwnInv, Owners, Handover
<1>2. Owners(S, O, B)'
  BY <1>1, Zenon DEF OwnInv, Owners, Handover
<1> QED BY <1>2 DEF OwnInv

\* The empty sequence, queue and container.
LEMMA Nothing ==
    /\ Range(<<>>) = {} /\ IsInjective(<<>>) /\ AllElems(<<>>) = {} /\ Disjointed(<<>>)
    /\ <<>> \in Seq(Packets) /\ <<>> \in Seq(Seq(Packets))
<1>1. Range(<<>>) = {}
  BY DEF Range
<1> QED BY <1>1 DEF IsInjective, AllElems, Disjointed

\* A record with no packet is tidy.
LEMMA EmptyHanded ==
    ASSUME NEW s, DOMAIN s = Fields, s.box = <<>>, s.good = <<>>, s.late = <<>>,
           s.pc \notin {"priority", "outbound"}
    PROVE  Tidy(s) /\ Hand(s) = {}
  BY Nothing DEF Tidy, Hand

\* A step that only moves the program counter.
LEMMA GoOn ==
    ASSUME OwnInv, NEW c \in Callers, NEW p, ~At(c, "encryption"), Goto(c, p),
           p \in {"priority", "outbound"} => caller[c].good # <<>>,
           UNCHANGED <<queues, sender, closer>>
    PROVE  OwnInv'
<1> DEFINE s == [caller[c] EXCEPT !.pc = p]
<1>1. Tidy(caller[c])
  BY DEF OwnInv
<1>2. /\ DOMAIN s = Fields /\ s.pc = p
      /\ s.box = caller[c].box /\ s.good = caller[c].good /\ s.late = caller[c].late
  BY <1>1 DEF Tidy, Fields
<1> HIDE DEF s
<1>3. Tidy(s)
  BY <1>1, <1>2 DEF Tidy
<1>4. Hand(s) \subseteq Hand(caller[c])
  BY <1>2 DEF Hand, At
<1>5. Become(c, s)
  BY DEF Goto, s
<1> QED BY <1>3, <1>4, <1>5, CallerKeeps, Zenon

\* A step that leaves a goroutine empty-handed.
LEMMA LetGo ==
    ASSUME OwnInv, NEW c \in Callers, NEW s, Become(c, s), Tidy(s), Hand(s) = {},
           UNCHANGED <<queues, sender, closer>>
    PROVE  OwnInv'
  BY CallerKeeps, Zenon

\* Nobody has a packet to begin with.
LEMMA OwnInit == Init => OwnInv
<1> SUFFICES ASSUME Init PROVE OwnInv
  OBVIOUS
<1>1. Tidy(Idle) /\ Hand(Idle) = {}
  BY EmptyHanded DEF Idle, Fields
<1>2. DOMAIN caller = Callers /\ \A c \in Callers : caller[c] = Idle
  BY DEF Init
<1>3. Queues
  BY Nothing DEF Init, Queues
<1>4. Sending /\ Range(sender.box) = {}
  BY Nothing DEF Init, Sending, Nil
<1>5. AllElems(staged) = {} /\ AllElems(outbound) = {}
  BY Nothing DEF Init
<1> QED BY <1>1, <1>2, <1>3, <1>4, <1>5 DEF OwnInv, Owners

\* A goroutine begins with packets from the pool.
LEMMA BeginsOwn ==
    ASSUME OwnInv, NEW c \in Callers, Input(c) \/ Keepalive(c) \/ Priority(c)
    PROVE  OwnInv'
<1>0. UNCHANGED <<queues, sender, closer>>
  BY Zenon DEF Input, Keepalive, Priority, life
<1>1. ASSUME NEW s, Become(c, s), DOMAIN s = Fields, s.good = <<>>, s.late = <<>>,
             s.pc \notin {"priority", "outbound"}, s.box \in Seq(Packets), IsInjective(s.box),
             Range(s.box) \subseteq Free
      PROVE  OwnInv'
  <2>1. Tidy(s)
    BY <1>1, Nothing DEF Tidy
  <2>2. Hand(s) \subseteq Free
    BY <1>1, Nothing DEF Hand
  <2> QED BY <1>0, <1>1, <2>1, <2>2, CallerKeeps, Zenon
<1>2. ASSUME NEW p \in Free
      PROVE  <<p>> \in Seq(Packets) /\ IsInjective(<<p>>) /\ Range(<<p>>) \subseteq Free
  BY DEF IsInjective, Range, Free
<1>3. CASE Input(c)
  <2>1. PICK n \in 1..MaxBatch : \E box \in [1..n -> Free] :
          IsInjective(box) /\ Become(c, [Idle EXCEPT !.pc = "running", !.box = box])
    BY <1>3, Zenon DEF Input
  <2>2. PICK box \in [1..n -> Free] :
          IsInjective(box) /\ Become(c, [Idle EXCEPT !.pc = "running", !.box = box])
    BY <2>1, Zenon
  <2> DEFINE s == [Idle EXCEPT !.pc = "running", !.box = box]
  <2>3. n \in Nat
    BY OutboundAssumption
  <2>4. box \in Seq(Packets) /\ Range(box) \subseteq Free
    BY <2>3 DEF Range, Free
  <2>5. /\ DOMAIN s = Fields /\ s.pc = "running" /\ s.box = box
        /\ s.good = <<>> /\ s.late = <<>>
    BY DEF Idle, Fields
  <2> HIDE DEF s
  <2> QED BY <1>1, <2>2, <2>4, <2>5, Zenon DEF s
<1>4. CASE Keepalive(c)
  <2>1. CASE staged = <<>> /\ running
    <3>1. PICK p \in Free : Become(c, [Idle EXCEPT !.pc = "keepalive", !.box = <<p>>])
      BY <1>4, <2>1, Zenon DEF Keepalive
    <3> DEFINE s == [Idle EXCEPT !.pc = "keepalive", !.box = <<p>>]
    <3>2. /\ DOMAIN s = Fields /\ s.pc = "keepalive" /\ s.box = <<p>>
          /\ s.good = <<>> /\ s.late = <<>>
      BY DEF Idle, Fields
    <3> QED BY <1>1, <1>2, <3>1, <3>2, Zenon
  <2>2. CASE ~(staged = <<>> /\ running)
    BY <1>0, <1>4, <2>2, GoOn, Zenon DEF Keepalive, At
  <2> QED BY <2>1, <2>2
<1>5. CASE Priority(c)
  <2>1. PICK p \in Free : Become(c, [Idle EXCEPT !.pc = "nonce", !.key = current, !.box = <<p>>,
                                                 !.priority = TRUE])
    BY <1>5, Zenon DEF Priority
  <2> DEFINE s == [Idle EXCEPT !.pc = "nonce", !.key = current, !.box = <<p>>, !.priority = TRUE]
  <2>2. /\ DOMAIN s = Fields /\ s.pc = "nonce" /\ s.box = <<p>>
        /\ s.good = <<>> /\ s.late = <<>>
    BY DEF Idle, Fields
  <2> QED BY <1>1, <1>2, <2>1, <2>2, Zenon
<1> QED BY <1>3, <1>4, <1>5

\* StagePackets, SendKeepalive and the take of SendStagedPackets.
LEMMA StagingOwn ==
    ASSUME OwnInv, NEW c \in Callers, PushStaged(c) \/ PushKeepalive(c) \/ Take(c)
    PROVE  OwnInv'
<1> DEFINE me == caller[c]
           Other == UNCHANGED <<outbound, filling, sender, closer>>
<1>1. /\ Tidy(me) /\ staged \in Seq(Seq(Packets)) /\ Disjointed(staged) /\ Queues /\ Sending
      /\ Hand(me) \intersect AllElems(staged) = {} /\ Hand(me) \intersect AllElems(outbound) = {}
      /\ AllElems(staged) \intersect AllElems(outbound) = {}
  BY Zenon DEF OwnInv, Owners, Queues
<1>2. Other
  BY DEF PushStaged, PushKeepalive, Take, life
<1>3. Sending' /\ UNCHANGED sender /\ UNCHANGED outbound
  BY <1>1, <1>2 DEF Sending
<1>4. ASSUME ~At(c, "encryption"), staged' = Append(staged, me.box),
             NEW s, Become(c, s), Tidy(s), Hand(s) \subseteq Range(me.good) \union Range(me.late)
      PROVE  OwnInv'
  <2>1. /\ me.box \in Seq(Packets) /\ IsInjective(me.box) /\ Range(me.box) \subseteq Hand(me)
        /\ Hand(s) \subseteq Hand(me) /\ Hand(s) \intersect Range(me.box) = {}
    BY <1>1, <1>4, Zenon DEF Tidy, Hand, At
  <2>2. /\ AllElems(staged') = AllElems(staged) \union Range(me.box)
        /\ Range(staged') = Range(staged) \union {me.box} /\ staged' \in Seq(Seq(Packets))
    BY <1>1, <1>4, <2>1, ElemsAppend, RangeAppend
  <2>3. Disjointed(staged')
    <3>1. Range(me.box) \intersect AllElems(staged) = {}
      BY <1>1, <2>1, Zenon
    <3> QED BY <1>1, <1>4, <2>1, <3>1, DisjointedAppend
  <2>4. Queues'
    BY <1>1, <1>3, <2>1, <2>2, <2>3 DEF Queues
  <2>5. /\ Hand(s) \intersect AllElems(staged') = {} /\ Hand(s) \intersect AllElems(outbound') = {}
        /\ AllElems(staged') \intersect AllElems(outbound') = {}
    BY <1>1, <1>3, <2>1, <2>2, Zenon
  <2>6. /\ Hand(s) \subseteq Hand(me) \union AllElems(staged) \union AllElems(outbound) \union Free
        /\ AllElems(staged')
             \subseteq Hand(me) \union AllElems(staged) \union AllElems(outbound) \union Free
        /\ AllElems(outbound')
             \subseteq Hand(me) \union AllElems(staged) \union AllElems(outbound) \union Free
    BY <1>3, <2>1, <2>2, Zenon
  <2> HIDE DEF me
  <2> QED BY <1>3, <1>4, <2>4, <2>5, <2>6, CallerMoves, Zenon DEF me
<1>5. ASSUME staged # <<>>, staged' = Tail(staged)
      PROVE  /\ Queues' /\ Head(staged) \in Seq(Packets) /\ IsInjective(Head(staged))
             /\ AllElems(staged) = Range(Head(staged)) \union AllElems(staged')
             /\ Range(Head(staged)) \intersect AllElems(staged') = {}
  BY <1>1, <1>3, <1>5, ElemsTail, DisjointedTail DEF Queues
<1>6. CASE PushStaged(c) /\ Len(staged) < StagedSize
  <2> DEFINE s == [me EXCEPT !.box = <<>>, !.pc = IF me.ooo THEN "dispatch" ELSE "top"]
  <2>1. At(c, "push") /\ staged' = Append(staged, me.box) /\ Become(c, s)
    BY <1>6, Zenon DEF PushStaged
  <2>2. /\ DOMAIN s = Fields /\ s.box = <<>> /\ s.good = me.good /\ s.late = me.late
        /\ s.pc \in {"dispatch", "top"}
    BY <1>1 DEF Tidy, Fields
  <2> HIDE DEF s
  <2>3. Tidy(s)
    BY <1>1, <2>2, Nothing DEF Tidy
  <2>4. Hand(s) \subseteq Range(me.good) \union Range(me.late)
    BY <2>2, Nothing DEF Hand
  <2> QED BY <1>4, <2>1, <2>3, <2>4, Zenon DEF At
<1>7. CASE PushStaged(c) /\ ~(Len(staged) < StagedSize)
  <2>1. staged' = Tail(staged) /\ UNCHANGED caller
    BY <1>7 DEF PushStaged
  <2>2. staged # <<>>
    BY <1>7, OutboundAssumption
  <2>3. /\ Queues' /\ AllElems(staged') \subseteq AllElems(staged)
        /\ UNCHANGED <<outbound, sender>>
    BY <1>3, <1>5, <2>1, <2>2
  <2>4. /\ AllElems(staged') \intersect AllElems(outbound') = {}
        /\ AllElems(staged') \intersect Range(sender'.box) = {}
        /\ AllElems(outbound') \intersect Range(sender'.box) = {}
    BY <2>3 DEF OwnInv, Owners
  <2>5. Handover
    BY <2>3, <2>4, Zenon DEF Handover
  <2> QED BY <1>3, <2>1, <2>3, <2>5, OthersMove, Zenon
<1>8. CASE PushKeepalive(c)
  <2> DEFINE s(p) == [Idle EXCEPT !.pc = p]
  <2>1. ASSUME NEW p \in {"count", "top"} PROVE Tidy(s(p)) /\ Hand(s(p)) = {}
    BY EmptyHanded DEF Idle, Fields
  <2>2. CASE Len(staged) < StagedSize
    <3>1. At(c, "keepalive") /\ staged' = Append(staged, me.box) /\ Become(c, s("count"))
      BY <1>8, <2>2 DEF PushKeepalive
    <3> HIDE DEF s
    <3> QED BY <1>4, <2>1, <3>1 DEF At
  <2>3. CASE ~(Len(staged) < StagedSize)
    <3>1. Become(c, s("top")) /\ UNCHANGED <<queues, sender, closer>>
      BY <1>8, <2>3 DEF PushKeepalive, queues, life
    <3> HIDE DEF s
    <3> QED BY <2>1, <3>1, LetGo
  <2> QED BY <2>2, <2>3
<1>9. CASE Take(c) /\ staged = <<>>
  <2>1. Become(c, Idle) /\ UNCHANGED <<queues, sender, closer>>
    BY <1>9 DEF Take, queues, life
  <2>2. Tidy(Idle) /\ Hand(Idle) = {}
    BY EmptyHanded DEF Idle, Fields
  <2> QED BY <2>1, <2>2, LetGo
<1>10. CASE Take(c) /\ staged # <<>>
  <2> DEFINE s == [me EXCEPT !.pc = "nonce", !.box = Head(staged)]
  <2>1. At(c, "take") /\ Become(c, s) /\ staged' = Tail(staged)
    BY <1>10 DEF Take
  <2>2. /\ DOMAIN s = Fields /\ s.box = Head(staged) /\ s.good = me.good /\ s.late = me.late
        /\ s.pc = "nonce"
    BY <1>1 DEF Tidy, Fields
  <2> HIDE DEF s
  <2>3. /\ Queues' /\ Head(staged) \in Seq(Packets) /\ IsInjective(Head(staged))
        /\ AllElems(staged) = Range(Head(staged)) \union AllElems(staged')
        /\ Range(Head(staged)) \intersect AllElems(staged') = {}
    BY <1>5, <1>10, <2>1
  <2>4. /\ Range(me.good) \subseteq Hand(me) /\ Range(me.late) \subseteq Hand(me)
    BY <2>1 DEF Hand, At
  <2>5. Tidy(s)
    <3>1. /\ Range(Head(staged)) \intersect Range(me.good) = {}
          /\ Range(Head(staged)) \intersect Range(me.late) = {}
      BY <1>1, <2>3, <2>4, Zenon
    <3> QED BY <1>1, <2>2, <2>3, <3>1 DEF Tidy
  <2>6. Hand(s) \subseteq Hand(me) \union Range(Head(staged))
    BY <2>2, <2>4 DEF Hand
  <2>7. /\ Hand(s) \intersect AllElems(staged') = {} /\ Hand(s) \intersect AllElems(outbound') = {}
        /\ AllElems(staged') \intersect AllElems(outbound') = {}
    BY <1>1, <1>3, <2>3, <2>6, Zenon
  <2>8. /\ Hand(s) \subseteq Hand(me) \union AllElems(staged) \union AllElems(outbound) \union Free
        /\ AllElems(staged')
             \subseteq Hand(me) \union AllElems(staged) \union AllElems(outbound) \union Free
        /\ AllElems(outbound')
             \subseteq Hand(me) \union AllElems(staged) \union AllElems(outbound) \union Free
    BY <1>3, <2>3, <2>6, Zenon
  <2> HIDE DEF me
  <2> QED BY <1>3, <2>1, <2>3, <2>5, <2>7, <2>8, CallerMoves, Zenon DEF me
<1> QED BY <1>6, <1>7, <1>8, <1>9, <1>10

\* Every packet taken is sealed for this container or kept for later.
LEMMA NonceOwn ==
    ASSUME OwnInv, NEW c \in Callers, AddNonce(c) PROVE OwnInv'
<1> DEFINE me == caller[c]  p == Head(me.box)
           late == [me EXCEPT !.pc = "exhausted", !.box = Tail(@), !.late = Append(@, p)]
           good == [me EXCEPT !.box = Tail(@), !.good = Append(@, p)]
<1>1. /\ me.pc = "nonce" /\ me.box # <<>>
      /\ Become(c, late) \/ Become(c, good)
      /\ UNCHANGED <<queues, sender, closer>>
  BY Zenon DEF AddNonce, At, life
<1>2. Tidy(me)
  BY DEF OwnInv
<1>3. /\ p \in Packets /\ Tail(me.box) \in Seq(Packets)
      /\ Range(me.box) = {p} \union Range(Tail(me.box))
      /\ IsInjective(Tail(me.box)) /\ p \notin Range(Tail(me.box))
  BY <1>1, <1>2, RangeTail, OnceTail DEF Tidy
<1>4. /\ Append(me.late, p) \in Seq(Packets) /\ Append(me.good, p) \in Seq(Packets)
      /\ Range(Append(me.late, p)) = Range(me.late) \union {p}
      /\ Range(Append(me.good, p)) = Range(me.good) \union {p}
  BY <1>2, <1>3, RangeAppend DEF Tidy
<1>5. IsInjective(Append(me.late, p))
  <2>1. p \notin Range(me.late)
    BY <1>2, <1>3 DEF Tidy
  <2> QED BY <1>2, <1>3, <2>1, OnceAppend DEF Tidy
<1>6. /\ DOMAIN late = Fields /\ late.pc = "exhausted" /\ late.box = Tail(me.box)
      /\ late.late = Append(me.late, p) /\ late.good = me.good
  BY <1>2 DEF Tidy, Fields
<1>7. /\ DOMAIN good = Fields /\ good.pc = "nonce" /\ good.box = Tail(me.box)
      /\ good.good = Append(me.good, p) /\ good.late = me.late
  BY <1>1, <1>2 DEF Tidy, Fields
<1> HIDE DEF late, good, p
<1>8. Tidy(late)
  BY <1>2, <1>3, <1>4, <1>5, <1>6 DEF Tidy
<1>9. Tidy(good)
  BY <1>2, <1>3, <1>4, <1>7 DEF Tidy
<1>10. Hand(late) \subseteq Hand(me)
  BY <1>1, <1>3, <1>4, <1>6, Zenon DEF Hand
<1>11. Hand(good) \subseteq Hand(me)
  BY <1>1, <1>3, <1>4, <1>7 DEF Hand
<1> HIDE DEF me
<1> QED BY <1>1, <1>8, <1>9, <1>10, <1>11, CallerKeeps, Zenon DEF me

\* What got no nonce is staged again, or freed when the peer is gone.
LEMMA RestageOwn ==
    ASSUME OwnInv, NEW c \in Callers, Restage(c) PROVE OwnInv'
<1> DEFINE me == caller[c]
           s == [me EXCEPT !.pc = "stage", !.box = me.late, !.late = <<>>, !.ooo = TRUE]
<1>1. /\ At(c, "nonce") /\ UNCHANGED <<queues, sender, closer>>
      /\ Goto(c, "dispatch") \/ Become(c, Idle) \/ Become(c, s)
  BY Zenon DEF Restage, life
<1>2. Tidy(me)
  BY DEF OwnInv
<1>3. /\ DOMAIN s = Fields /\ s.pc = "stage" /\ s.box = me.late /\ s.late = <<>>
      /\ s.good = me.good
  BY <1>2 DEF Tidy, Fields
<1> HIDE DEF s
<1>4. Tidy(s)
  BY <1>2, <1>3, Nothing DEF Tidy
<1>5. Hand(s) \subseteq Hand(me)
  BY <1>1, <1>3, Nothing DEF Hand, At
<1>6. Tidy(Idle) /\ Hand(Idle) = {}
  BY EmptyHanded DEF Idle, Fields
<1>7. CASE Goto(c, "dispatch")
  BY <1>1, <1>7, GoOn DEF At
<1>8. CASE Become(c, Idle)
  BY <1>1, <1>6, <1>8, LetGo
<1>9. CASE Become(c, s)
  BY <1>1, <1>4, <1>5, <1>9, CallerKeeps
<1> QED BY <1>1, <1>7, <1>8, <1>9

\* The next round of SendStagedPackets begins with nothing.
LEMMA AgainTidy == ASSUME NEW r PROVE Tidy(Again(r)) /\ Hand(Again(r)) = {}
<1>1. LET s == Again(r) IN /\ DOMAIN s = Fields /\ s.pc \in {"idle", "top", "take"}
                           /\ s.box = <<>> /\ s.good = <<>> /\ s.late = <<>>
  BY DEF Again, Idle, Fields
<1> QED BY <1>1, EmptyHanded

\* The container passes to the outbound queue, filled by a worker.
LEMMA OutboundOwn ==
    ASSUME OwnInv, NEW c \in Callers, ToOutbound(c) PROVE OwnInv'
<1> DEFINE me == caller[c]  s == [me EXCEPT !.pc = "encryption"]
<1>1. /\ me.pc = "outbound" /\ outbound' = Append(outbound, me.good)
      /\ filling' = filling \union {me.good} /\ Become(c, s)
      /\ UNCHANGED <<staged, sender, closer>>
  BY DEF ToOutbound, At, Goto, life
<1>2. /\ Tidy(me) /\ outbound \in Seq(Seq(Packets)) /\ Disjointed(outbound) /\ Queues /\ Sending
      /\ Hand(me) \intersect AllElems(staged) = {} /\ Hand(me) \intersect AllElems(outbound) = {}
      /\ AllElems(staged) \intersect AllElems(outbound) = {}
  BY Zenon DEF OwnInv, Owners, Queues
<1>3. me.good \in Seq(Packets) /\ me.good # <<>> /\ Range(me.good) \subseteq Hand(me)
  BY <1>1, <1>2 DEF Tidy, Hand
<1>4. /\ DOMAIN s = Fields /\ s.pc = "encryption"
      /\ s.box = me.box /\ s.good = me.good /\ s.late = me.late
  BY <1>2 DEF Tidy, Fields
<1> HIDE DEF s
<1>5. Tidy(s) /\ Hand(s) = {}
  BY <1>2, <1>4, Zenon DEF Tidy, Hand
<1>6. /\ AllElems(outbound') = AllElems(outbound) \union Range(me.good)
      /\ Range(outbound') = Range(outbound) \union {me.good} /\ outbound' \in Seq(Seq(Packets))
  <2>1. AllElems(Append(outbound, me.good)) = AllElems(outbound) \union Range(me.good)
    BY <1>2, <1>3, ElemsAppend, Zenon
  <2>2. /\ Range(Append(outbound, me.good)) = Range(outbound) \union {me.good}
        /\ Append(outbound, me.good) \in Seq(Seq(Packets))
    BY <1>2, <1>3, RangeAppend, Zenon
  <2> QED BY <1>1, <2>1, <2>2, Zenon
<1>7. Disjointed(outbound')
  <2>1. Range(me.good) \intersect AllElems(outbound) = {}
    BY <1>2, <1>3, Zenon
  <2> QED BY <1>1, <1>2, <1>3, <2>1, DisjointedAppend
<1>8. Queues'
  BY <1>1, <1>2, <1>6, <1>7 DEF Queues
<1>9. Sending'
  BY <1>1, <1>2, <1>3, <1>6 DEF Sending, Nil
<1>10. /\ Hand(s) \intersect AllElems(staged') = {} /\ Hand(s) \intersect AllElems(outbound') = {}
       /\ AllElems(staged') \intersect AllElems(outbound') = {}
  BY <1>1, <1>2, <1>3, <1>5, <1>6, Zenon
<1>11. /\ Hand(s) \subseteq Hand(me) \union AllElems(staged) \union AllElems(outbound) \union Free
       /\ AllElems(staged')
            \subseteq Hand(me) \union AllElems(staged) \union AllElems(outbound) \union Free
       /\ AllElems(outbound')
            \subseteq Hand(me) \union AllElems(staged) \union AllElems(outbound) \union Free
  BY <1>1, <1>3, <1>5, <1>6, Zenon
<1>12. UNCHANGED sender
  BY <1>1
<1> HIDE DEF me
<1> QED BY <1>1, <1>5, <1>8, <1>9, <1>10, <1>11, <1>12, CallerMoves, Zenon DEF me

\* Every step of a goroutine.
LEMMA CallOwn ==
    ASSUME OwnInv, NEW c \in Callers, Call(c) PROVE OwnInv'
<1> DEFINE me == caller[c]
<1>1. Tidy(Idle) /\ Hand(Idle) = {}
  BY EmptyHanded DEF Idle, Fields
<1>2. CASE CheckRunning(c) \/ CountStaged(c) \/ CountKeepalive(c) \/ Exhausted(c) \/ CountPriority(c)
  <2>1. UNCHANGED <<queues, sender, closer>> /\ ~At(c, "encryption")
    BY <1>2 DEF CheckRunning, CountStaged, CountKeepalive, Exhausted, CountPriority, At, life
  <2>2. \/ Become(c, Idle)
        \/ \E p \in {"stage", "push", "top", "nonce"} : Goto(c, p)
        \/ At(c, "priority") /\ Goto(c, "outbound")
    BY <1>2, Zenon DEF CheckRunning, CountStaged, CountKeepalive, Exhausted, CountPriority
  <2>3. At(c, "priority") => me.good # <<>>
    BY DEF OwnInv, Tidy, At
  <2> QED BY <1>1, <2>1, <2>2, <2>3, GoOn, LetGo
<1>3. CASE Top(c)
  <2> DEFINE s == [Idle EXCEPT !.pc = "take", !.key = current]
  <2>1. (Become(c, Idle) \/ Become(c, s)) /\ UNCHANGED <<queues, sender, closer>>
    BY <1>3, Zenon DEF Top, life
  <2>2. Tidy(s) /\ Hand(s) = {}
    BY EmptyHanded, Zenon DEF Idle, Fields
  <2> HIDE DEF s
  <2> QED BY <1>1, <2>1, <2>2, LetGo
<1>4. CASE Dispatch(c)
  <2>1. UNCHANGED <<queues, sender, closer>> /\ ~At(c, "encryption")
    BY <1>4 DEF Dispatch, At, life
  <2>2. \/ Become(c, Again(me))
        \/ me.good # <<>> /\ Goto(c, IF me.priority THEN "priority" ELSE "outbound")
    BY <1>4, Zenon DEF Dispatch
  <2> QED BY <2>1, <2>2, AgainTidy, GoOn, LetGo, Zenon
<1>5. CASE ToEncryption(c)
  <2>1. Become(c, Again(me)) /\ UNCHANGED <<staged, outbound, filling, sender, closer>>
    BY <1>5 DEF ToEncryption, life
  <2>2. /\ Hand(Again(me)) = {} /\ Tidy(Again(me)) /\ Queues' /\ Sending'
        /\ AllElems(staged) \intersect AllElems(outbound) = {}
        /\ UNCHANGED sender /\ staged' = staged /\ outbound' = outbound
    BY <2>1, AgainTidy DEF OwnInv, Queues, Sending, Owners
  <2> QED BY <2>1, <2>2, CallerMoves, Zenon
<1> QED BY <1>2, <1>3, <1>4, <1>5, StagingOwn, NonceOwn, RestageOwn, OutboundOwn DEF Call

\* A step that moves no packet.
LEMMA StayOwn ==
    ASSUME OwnInv, UNCHANGED <<caller, staged, outbound, sender>>, filling' \subseteq filling,
           closer' \in {"zeroed", "stopped", "flush"} =>
               closer \in {"zeroed", "stopped", "flush"} \/ sender.pc = "stopped"
    PROVE  OwnInv'
  BY DEF OwnInv, Queues, Sending, Owners

\* The parts of the invariant that the queues and the sender need.
LEMMA PlacesApart ==
    ASSUME OwnInv
    PROVE  /\ Queues /\ Sending /\ outbound \in Seq(Seq(Packets)) /\ Disjointed(outbound)
           /\ AllElems(staged) \intersect AllElems(outbound) = {}
           /\ AllElems(staged) \intersect Range(sender.box) = {}
           /\ AllElems(outbound) \intersect Range(sender.box) = {}
  BY Zenon DEF OwnInv, Owners, Queues

\* RoutineSequentialSender frees a container only when it was filled.
LEMMA SenderOwn == ASSUME OwnInv, Send PROVE OwnInv'
<1>1. CASE SenderTake
  <2>1. /\ UNCHANGED <<caller, staged, filling, closer>> /\ sender.pc = "idle" /\ outbound # <<>>
        /\ outbound' = Tail(outbound) /\ sender'.box = Head(outbound) /\ DOMAIN sender' = {"pc", "box"}
        /\ sender'.pc # "wait" => sender'.box = Nil
    BY <1>1 DEF SenderTake, life
  <2>2. /\ Tail(outbound) \in Seq(Seq(Packets)) /\ Head(outbound) \in Seq(Packets)
        /\ Range(outbound) = {Head(outbound)} \union Range(Tail(outbound))
        /\ AllElems(outbound) = Range(Head(outbound)) \union AllElems(Tail(outbound))
        /\ Disjointed(Tail(outbound)) /\ Range(Head(outbound)) \intersect AllElems(Tail(outbound)) = {}
    BY PlacesApart, <2>1, ElemsTail, DisjointedTail
  <2>3. Queues'
    BY PlacesApart, <2>1, <2>2 DEF Queues
  <2>4. Sending'
    BY PlacesApart, <2>1, <2>2 DEF Sending
  <2>5. Handover
    BY PlacesApart, <2>1, <2>2, Zenon DEF Handover
  <2> QED BY <2>1, <2>3, <2>4, <2>5, OthersMove, Zenon
<1>2. CASE SenderDone
  <2>1. /\ UNCHANGED <<caller, staged, outbound, filling, closer>> /\ sender.pc = "wait"
        /\ sender.box \notin filling /\ sender'.box = Nil /\ DOMAIN sender' = {"pc", "box"}
    BY <1>2 DEF SenderDone, queues, life
  <2>2. Range(sender'.box) = {}
    BY <2>1, Nothing DEF Nil
  <2>3. Queues' /\ Sending'
    BY PlacesApart, <2>1, Nothing DEF Queues, Sending, Nil
  <2>4. Handover
    BY PlacesApart, <2>1, <2>2, Zenon DEF Handover
  <2> QED BY <2>1, <2>3, <2>4, OthersMove, Zenon
<1> QED BY <1>1, <1>2 DEF Send

\* Stop and the flush of what is staged.
LEMMA StopOwn == ASSUME OwnInv, StopGoesOn PROVE OwnInv'
<1>1. CASE StopSignal
  <2>1. /\ UNCHANGED <<caller, staged, filling, sender>> /\ closer' = "wait"
        /\ outbound' = Append(outbound, Nil)
    BY <1>1 DEF StopSignal, Close
  <2>2. /\ Range(outbound') = Range(outbound) \union {Nil} /\ outbound' \in Seq(Seq(Packets))
        /\ AllElems(outbound') = AllElems(outbound) /\ Disjointed(outbound')
    <3>1. Nil \in Seq(Packets) /\ Range(Nil) = {} /\ Range(Nil) \intersect AllElems(outbound) = {}
      BY Nothing DEF Nil
    <3>2. AllElems(outbound') = AllElems(outbound) \union Range(Nil)
      BY PlacesApart, <2>1, <3>1, ElemsAppend, Zenon
    <3>3. Range(outbound') = Range(outbound) \union {Nil} /\ outbound' \in Seq(Seq(Packets))
      BY PlacesApart, <2>1, <3>1, RangeAppend
    <3>4. Disjointed(outbound')
      BY PlacesApart, <2>1, <3>1, DisjointedAppend
    <3> QED BY <3>1, <3>2, <3>3, <3>4
  <2>3. Queues' /\ Sending'
    BY PlacesApart, <2>1, <2>2 DEF Queues, Sending
  <2>4. Handover
    BY PlacesApart, <2>1, <2>2, Zenon DEF Handover
  <2> QED BY <2>1, <2>3, <2>4, OthersMove, Zenon
<1>2. CASE StopZero
  BY <1>2, StayOwn DEF StopZero, Close, queues
<1>3. CASE Flush
  <2>1. /\ UNCHANGED <<caller, outbound, filling, sender>> /\ staged' = <<>>
        /\ closer' \in {"zeroed", "stopped", "flush"} => closer \in {"zeroed", "stopped", "flush"}
    BY <1>3 DEF Flush, Close
  <2>2. AllElems(staged') = {} /\ Range(staged') = {}
    BY <2>1, Nothing
  <2>3. Queues' /\ Sending'
    BY PlacesApart, <2>1, <2>2, Nothing DEF Queues, Sending
  <2>4. Handover
    BY PlacesApart, <2>1, <2>2, Zenon DEF Handover
  <2> QED BY <2>1, <2>3, <2>4, OthersMove, Zenon
<1> QED BY <1>1, <1>2, <1>3 DEF StopGoesOn

\* Start flushes only containers that were filled.
LEMMA StartOwn == ASSUME OwnInv, StartGoesOn PROVE OwnInv'
<1>1. CASE StartFlush
  <2>1. /\ UNCHANGED <<caller, staged, filling, sender, closer>> /\ outbound # <<>>
        /\ Head(outbound) \notin filling /\ outbound' = Tail(outbound)
    BY <1>1 DEF StartFlush, life
  <2>2. /\ Tail(outbound) \in Seq(Seq(Packets)) /\ Disjointed(Tail(outbound))
        /\ Range(outbound) = {Head(outbound)} \union Range(Tail(outbound))
        /\ AllElems(outbound) = Range(Head(outbound)) \union AllElems(Tail(outbound))
    BY PlacesApart, <2>1, ElemsTail, DisjointedTail
  <2>3. Queues' /\ Sending'
    BY PlacesApart, <2>1, <2>2 DEF Queues, Sending
  <2>4. Handover
    BY PlacesApart, <2>1, <2>2, Zenon DEF Handover
  <2> QED BY <2>1, <2>3, <2>4, OthersMove, Zenon
<1>2. CASE StartRun
  <2>1. /\ UNCHANGED <<caller, staged, outbound, filling>> /\ closer = "flush" /\ closer' = "idle"
        /\ sender' = [pc |-> "idle", box |-> Nil]
    BY <1>2 DEF StartRun, Close, queues
  <2>2. sender'.box = sender.box
    BY PlacesApart, <2>1 DEF Sending
  <2>3. Queues' /\ Sending'
    BY PlacesApart, <2>1, <2>2 DEF Queues, Sending
  <2>4. Handover
    BY PlacesApart, <2>1, <2>2, Zenon DEF Handover
  <2> QED BY <2>1, <2>3, <2>4, OthersMove, Zenon
<1> QED BY <1>1, <1>2 DEF StartGoesOn

\* Every step keeps the owners apart.
LEMMA OwnStep == OwnInv /\ [Next]_vars => OwnInv'
<1> SUFFICES ASSUME OwnInv, [Next]_vars PROVE OwnInv'
  OBVIOUS
<1>1. ASSUME NEW c \in Callers, Input(c) \/ Keepalive(c) \/ Priority(c) \/ Call(c) PROVE OwnInv'
  BY <1>1, BeginsOwn, CallOwn
<1>2. CASE Work
  BY <1>2, StayOwn DEF Work, Encrypt, life
<1>3. CASE NewKeypair \/ ExpireCurrentKeypairs
  BY <1>3, StayOwn DEF NewKeypair, ExpireCurrentKeypairs, queues, life
<1>4. CASE StopBegin \/ TimerExpires \/ StartReset
  BY <1>4, StayOwn DEF StopBegin, TimerExpires, StartReset, Close, queues, life
<1>5. CASE UNCHANGED vars
  BY <1>5, StayOwn DEF vars, queues, life
<1> QED BY <1>1, <1>2, <1>3, <1>4, <1>5, SenderOwn, StopOwn, StartOwn DEF Next

\* The invariant says what OneOwner says.
LEMMA OwnedOnce == OwnInv => OneOwner
<1> SUFFICES ASSUME OwnInv PROVE OneOwner
  OBVIOUS
<1> DEFINE S == AllElems(staged)  O == AllElems(outbound)  B == Range(sender.box)
           H == UNION {InHand(c) : c \in Callers}  at == <<S, O, B, H>>
<1>1. \A c \in Callers : InHand(c) = Hand(caller[c])
  BY Zenon DEF InHand, Hand
<1>2. \A c, d \in Callers : c # d => InHand(c) \intersect InHand(d) = {}
  BY <1>1, Zenon DEF OwnInv, Owners
<1>3. /\ S \intersect O = {} /\ S \intersect B = {} /\ O \intersect B = {}
      /\ S \intersect H = {} /\ O \intersect H = {} /\ B \intersect H = {}
  <2>1. \A c \in Callers : InHand(c) \intersect (S \union O \union B) = {}
    BY <1>1, Zenon DEF OwnInv, Owners
  <2>2. H \intersect (S \union O \union B) = {}
    BY <2>1, Zenon
  <2> HIDE DEF H
  <2> QED BY PlacesApart, <2>2, Zenon
<1>4. \A s, t \in 1..4 : s < t => at[s] \intersect at[t] = {}
  <2> HIDE DEF S, O, B, H
  <2> QED BY <1>3
<1>5. \A box \in filling : box = sender.box \/ box \in Range(outbound)
  BY DEF OwnInv, Sending
<1> QED BY <1>2, <1>4, <1>5, Zenon DEF OneOwner

\* OneOwner for any number of goroutines, packets, keypairs and restarts and any
\* size of the queues: Input, SendStagedPackets, the workers, the sender, Stop and
\* Start never have one buffer between them.
THEOREM BuffersHaveOneOwner == Spec => []OneOwner
  BY OwnInit, OwnStep, OwnedOnce, PTL DEF Spec
=============================================================================
