-------------------------- MODULE MessengerProofs ---------------------------
(***************************************************************************)
(* Theorems about Messenger and RayMessenger.  Of Messenger, for any ranks,*)
(* tags, pool sizes, packet sizes and number of messages: type             *)
(* correctness, that a message is returned at most once, that the pool of  *)
(* receives of a tag keeps its size, that no packet of a message is lost   *)
(* before the message is returned, and that the messenger implements       *)
(* MessageService: what it returns is what was sent, byte for byte.  Of    *)
(* RayMessenger: it is a client of Messenger, so that all this holds of it,*)
(* and with one receive posted for rays, what RegisterMessages asks for by *)
(* default, no ray is lost or duplicated.                                  *)
(***************************************************************************)
EXTENDS RayMessenger, ListLemmas

-----------------------------------------------------------------------------
(* Packets are well formed.                                                *)

LEMMA BytesType ==
  ASSUME NEW pos \in Nat, NEW n \in Int
  PROVE  Bytes(pos, n) \in Seq(Nat)
<1>1. CASE n \in Nat
  <2>1. \A j \in 1..n : pos + j \in Nat
    OBVIOUS
  <2>2. QED
    BY <1>1, <2>1, IsASeq DEF Bytes
<1>2. CASE n < 0
  <2>1. 1..n = 1..0
    BY <1>2
  <2>2. Bytes(pos, n) = [j \in 1..0 |-> pos + j]
    BY <2>1 DEF Bytes
  <2>3. [j \in 1..0 |-> pos + j] \in Seq(Nat)
    BY IsASeq
  <2>4. QED
    BY <2>2, <2>3
<1>3. QED
  BY <1>1, <1>2

LEMMA NumPacketsType ==
  ASSUME NEW tag \in Tags, NEW len \in Nat
  PROVE  NumPackets(tag, len) \in Nat \ {0}
<1>1. MaxDataLen[tag] \in Nat \ {0}
  BY TagAssumption
<1>2. len \div MaxDataLen[tag] \in Nat
  BY <1>1
<1>3. QED
  BY <1>2 DEF NumPackets

LEMMA PacketOfType ==
  ASSUME NEW r \in Ranks, NEW dst \in Ranks, NEW id \in Nat, NEW tag \in Tags,
         NEW len \in Nat, NEW i \in 0 .. NumPackets(tag, len) - 1
  PROVE  PacketOf(r, dst, id, tag, len, i) \in Packet
<1>1. NumPackets(tag, len) \in Nat \ {0} /\ MaxDataLen[tag] \in Nat \ {0}
  BY NumPacketsType, TagAssumption
<1>2. i \in Nat
  BY <1>1
<1>3. i * MaxDataLen[tag] \in Nat
  BY <1>1, <1>2
<1>4. DEFINE pos == i * MaxDataLen[tag]
             n == IF i = NumPackets(tag, len) - 1 THEN len - pos ELSE MaxDataLen[tag]
<1>5. n \in Int
  BY <1>1, <1>3
<1>6. Bytes(pos, n) \in Seq(Nat)
  <2> HIDE DEF n
  <2> QED BY <1>3, <1>5, BytesType
<1>7. QED
  BY <1>1, <1>2, <1>6 DEF PacketOf, Packet

LEMMA PrepareForSendType ==
  ASSUME NEW r \in Ranks, NEW dst \in Ranks, NEW id \in Nat, NEW tag \in Tags,
         NEW len \in Nat
  PROVE  PrepareForSend(r, dst, id, tag, len) \subseteq Packet
BY PacketOfType DEF PrepareForSend

LEMMA PrepareForSendFinite ==
  ASSUME NEW r \in Ranks, NEW dst \in Ranks, NEW id \in Nat, NEW tag \in Tags,
         NEW len \in Nat
  PROVE  IsFiniteSet(PrepareForSend(r, dst, id, tag, len))
<1> DEFINE I == 0 .. NumPackets(tag, len) - 1
           P == PrepareForSend(r, dst, id, tag, len)
           f == [i \in I |-> PacketOf(r, dst, id, tag, len, i)]
<1>1. IsFiniteSet(I)
  BY NumPacketsType, FS_Interval
<1>2. f \in Surjection(I, P)
  BY DEF Surjection, PrepareForSend
<1>3. QED
  <2> HIDE DEF f, P, I
  <2>1. IsFiniteSet(P)
    BY <1>1, <1>2, FS_Surjection
  <2>2. QED
    BY <2>1 DEF P

-----------------------------------------------------------------------------
(* Type correctness.  Re-posting counts completed packets, so the typing   *)
(* of posted needs the buffers to be finite.                               *)

FiniteBuffers ==
  /\ IsFiniteSet(network)
  /\ \A r \in Ranks : IsFiniteSet(recvBuffers[r])

(* What has been returned is recorded for every rank. *)
DeliveredFunction == delivered = [r \in Ranks |-> delivered[r]]

TypeInv == TypeOK /\ FiniteBuffers /\ DeliveredFunction

LEMMA TypeInvInit == Init => TypeInv
<1> SUFFICES ASSUME Init PROVE TypeInv
  OBVIOUS
<1>1. IsFiniteSet({})
  BY FS_EmptySet
<1>2. QED
  BY <1>1 DEF Init, TypeInv, TypeOK, FiniteBuffers, DeliveredFunction

LEMMA TypeInvNext == TypeInv /\ [Next]_vars => TypeInv'
<1> SUFFICES ASSUME TypeInv, [Next]_vars PROVE TypeInv'
  OBVIOUS
<1> USE DEF TypeInv, TypeOK, FiniteBuffers, DeliveredFunction, local
<1>1. ASSUME NEW r \in Ranks, NEW t \in Tags, RegisterTag(r, t) PROVE TypeInv'
  BY <1>1 DEF RegisterTag
<1>2. ASSUME NEW r \in Ranks, InitializeBuffers(r) PROVE TypeInv'
  <2>1. [t \in Tags |-> posted[r][t] + NumRecvs[t]] \in [Tags -> Nat]
    BY TagAssumption
  <2>2. posted' \in [Ranks -> [Tags -> Nat]]
    BY <1>2, <2>1 DEF InitializeBuffers
  <2>3. QED
    BY <1>2, <2>2 DEF InitializeBuffers
<1>3. ASSUME NEW r \in Ranks, NEW dst \in Ranks, NEW t \in Tags,
             NEW len \in Lengths, SendData(r, dst, t, len)
      PROVE  TypeInv'
  <2> DEFINE packets == PrepareForSend(r, dst, msgID[r], t, len)
  <2>1. len \in Nat /\ msgID[r] \in Nat
    BY BoundAssumption
  <2>2. packets \subseteq Packet /\ IsFiniteSet(packets)
    BY <2>1, PrepareForSendType, PrepareForSendFinite
  <2>3. /\ network' = network \cup packets
        /\ sendBuffers' = [sendBuffers EXCEPT ![r] = @ \cup packets]
        /\ msgID' = [msgID EXCEPT ![r] = @ + 1]
        /\ UNCHANGED <<local, posted, recvBuffers, recvPackets, delivered, closed>>
    BY <1>3 DEF SendData
  <2> HIDE DEF packets
  <2>4. IsFiniteSet(network')
    BY <2>2, <2>3, FS_Union
  <2>5. QED
    BY <2>1, <2>2, <2>3, <2>4
<1>4. ASSUME NEW p \in network, MatchReceive(p) PROVE TypeInv'
  <2>1. p \in Packet /\ p.dst \in Ranks /\ p.tag \in Tags
    BY DEF Packet
  <2>2. IsFiniteSet(network') /\ IsFiniteSet(recvBuffers[p.dst] \cup {p})
    BY <1>4, <2>1, FS_RemoveElement, FS_AddElement DEF MatchReceive
  <2>3. posted' \in [Ranks -> [Tags -> Nat]]
    BY <1>4, <2>1 DEF MatchReceive
  <2>4. QED
    BY <1>4, <2>1, <2>2, <2>3 DEF MatchReceive
<1>5. ASSUME NEW r \in Ranks, NEW done \in SUBSET recvBuffers[r],
             RecvData(r, done)
      PROVE  TypeInv'
  <2> DEFINE known == recvPackets[r] \cup done
             whole == {p \in known : Complete(p, known)}
  <2>1. /\ recvBuffers' = [recvBuffers EXCEPT ![r] = @ \ done]
        /\ recvPackets' = [recvPackets EXCEPT ![r] = known \ whole]
        /\ delivered' = [delivered EXCEPT ![r] =
                           @ \cup {Merge(p, known) : p \in whole}]
        /\ posted' = [posted EXCEPT ![r] = RePosted(r, done)]
        /\ UNCHANGED <<local, msgID, network, sendBuffers, closed>>
    BY <1>5 DEF RecvData
  <2>2. RePosted(r, done) \in [Tags -> Nat]
    <3>1. ASSUME NEW t \in Tags
          PROVE  Cardinality({p \in done : p.tag = t}) \in Nat
      BY FS_Subset, FS_CardinalityType
    <3>2. QED
      BY <3>1 DEF RePosted
  <2>3. IsFiniteSet(recvBuffers[r] \ done)
    BY FS_Difference
  <2>4. known \ whole \subseteq Packet
    OBVIOUS
  <2> HIDE DEF known, whole
  <2>5. QED
    BY <2>1, <2>2, <2>3, <2>4
<1>6. ASSUME NEW r \in Ranks, NEW done, CheckPendingSendRequests(r, done)
      PROVE  TypeInv'
  BY <1>6 DEF CheckPendingSendRequests
<1>7. ASSUME NEW r \in Ranks, NEW tags \in SUBSET Tags, CleanupRequests(r, tags)
      PROVE  TypeInv'
  <2>1. IsFiniteSet({p \in recvBuffers[r] : p.tag \notin tags})
    BY FS_Subset
  <2>2. [t \in Tags |-> IF t \in tags THEN 0 ELSE posted[r][t]] \in [Tags -> Nat]
    OBVIOUS
  <2>3. posted' \in [Ranks -> [Tags -> Nat]]
    BY <1>7, <2>2 DEF CleanupRequests
  <2>4. QED
    BY <1>7, <2>1, <2>3 DEF CleanupRequests
<1>8. CASE UNCHANGED vars
  BY <1>8 DEF vars
<1> HIDE DEF TypeInv, TypeOK, FiniteBuffers, DeliveredFunction, local
<1>9. QED
  BY <1>1, <1>2, <1>3, <1>4, <1>5, <1>6, <1>7, <1>8 DEF Next

LEMMA TypeInvariant == Spec => []TypeInv
BY TypeInvInit, TypeInvNext, PTL DEF Spec

(* Every variable of the messenger keeps its type, whatever the pool sizes, *)
(* the packet sizes and the number of ranks and messages.                   *)
THEOREM TypeCorrect == Spec => []TypeOK
<1>1. TypeInv => TypeOK
  BY DEF TypeInv
<1>2. QED
  BY <1>1, TypeInvariant, PTL

-----------------------------------------------------------------------------
(* At most once.  A message is returned when as many of its packets are on *)
(* the list as its header says.  That leaves none elsewhere because the    *)
(* packets of a message have distinct numbers below numPackets, no packet  *)
(* is in two places, and ids are not used again.                           *)

Everywhere == network \cup UNION {Held(r) : r \in Ranks}

(* Packets and returned messages have ids given out already. *)
IdsUsed ==
  /\ \A p \in Everywhere : p.id < msgID[p.rank]
  /\ \A r \in Ranks : \A m \in delivered[r] :
       m.rank \in Ranks /\ m.id \in Nat /\ m.id < msgID[m.rank]

(* A packet held by a rank is addressed to it, and is in one place. *)
InOnePlace ==
  \A r \in Ranks :
    /\ \A p \in Held(r) : p.dst = r
    /\ network \cap Held(r) = {}
    /\ recvBuffers[r] \cap recvPackets[r] = {}

(* Packets of one message agree on its header and have distinct numbers. *)
PacketsAgree ==
  /\ \A p \in Everywhere : p.packet < p.numPackets
  /\ \A p, q \in Everywhere : SameMessage(p, q) =>
       /\ p.numPackets = q.numPackets /\ p.dst = q.dst
       /\ p.packet = q.packet => p = q

(* Packets kept on the list wait for others. *)
ListFinite == \A r \in Ranks : IsFiniteSet(recvPackets[r])

(* AtMostOnce, with the packets held by any rank. *)
NoneLeft ==
  \A r \in Ranks : \A m \in delivered[r] :
    \A p \in Everywhere : ~SameMessage(m, p)

OnceInv ==
  /\ TypeInv
  /\ IdsUsed
  /\ InOnePlace
  /\ PacketsAgree
  /\ ListFinite
  /\ NoneLeft

LEMMA OnceInit == Init => OnceInv
<1> SUFFICES ASSUME Init PROVE OnceInv
  OBVIOUS
<1>1. TypeInv
  BY TypeInvInit
<1>2. Everywhere = {} /\ \A r \in Ranks : Held(r) = {}
  BY DEF Init, Everywhere, Held
<1>3. QED
  BY <1>1, <1>2, FS_EmptySet
     DEF Init, OnceInv, IdsUsed, InOnePlace, PacketsAgree, ListFinite, NoneLeft

(* A step that only moves packets from one place to another, or drops some, *)
(* and neither numbers nor returns a message keeps what is known of them.   *)
LEMMA FewerPackets ==
  ASSUME OnceInv, Everywhere' \subseteq Everywhere, UNCHANGED <<msgID, delivered>>
  PROVE  IdsUsed' /\ PacketsAgree' /\ NoneLeft'
<1>1. IdsUsed'
  BY DEF OnceInv, IdsUsed
<1>2. PacketsAgree'
  BY DEF OnceInv, PacketsAgree, SameMessage
<1>3. NoneLeft'
  BY DEF OnceInv, NoneLeft, SameMessage
<1>4. QED
  BY <1>1, <1>2, <1>3

LEMMA EverywhereType ==
  ASSUME OnceInv
  PROVE  /\ Everywhere \subseteq Packet
         /\ \A r \in Ranks : Held(r) \subseteq Everywhere
<1>1. \A r \in Ranks : Held(r) \subseteq Packet
  BY DEF OnceInv, TypeInv, TypeOK, Held
<1>2. network \subseteq Packet
  BY DEF OnceInv, TypeInv, TypeOK
<1>3. QED
  BY <1>1, <1>2 DEF Everywhere

(* Sending numbers a message no packet and no returned message carries. *)
LEMMA OnceSend ==
  ASSUME OnceInv, TypeInv', NEW r \in Ranks, NEW dst \in Ranks, NEW t \in Tags,
         NEW len \in Lengths, SendData(r, dst, t, len)
  PROVE  OnceInv'
<1> DEFINE packets == PrepareForSend(r, dst, msgID[r], t, len)
<1>1. /\ network' = network \cup packets
      /\ msgID' = [msgID EXCEPT ![r] = @ + 1]
      /\ UNCHANGED <<recvBuffers, recvPackets, delivered>>
  BY DEF SendData
<1>2. len \in Nat /\ msgID \in [Ranks -> Nat]
  BY BoundAssumption DEF OnceInv, TypeInv, TypeOK
<1>3. /\ \A p \in packets : /\ p.rank = r /\ p.id = msgID[r] /\ p.dst = dst
                            /\ p.numPackets = NumPackets(t, len)
                            /\ p.packet < p.numPackets
      /\ \A p, q \in packets : p.packet = q.packet => p = q
  <2>1. NumPackets(t, len) \in Nat \ {0}
    BY <1>2, NumPacketsType
  <2>2. QED
    BY <2>1 DEF PrepareForSend, PacketOf
<1> HIDE DEF packets
<1>4. Everywhere' = Everywhere \cup packets /\ \A x \in Ranks : Held(x)' = Held(x)
  BY <1>1 DEF Everywhere, Held
<1>5. \A p \in Everywhere : p.rank \in Ranks /\ p.id \in Nat /\ p.id < msgID[p.rank]
  BY EverywhereType DEF OnceInv, IdsUsed, Packet
<1>6. \A p \in Everywhere, q \in packets : ~SameMessage(p, q) /\ ~SameMessage(q, p)
  BY <1>2, <1>3, <1>5 DEF SameMessage
<1>7. IdsUsed'
  <2>1. \A x \in Ranks : msgID'[x] \in Nat /\ msgID[x] <= msgID'[x]
    BY <1>1, <1>2
  <2>2. msgID'[r] = msgID[r] + 1
    BY <1>1, <1>2
  <2>3. \A p \in Everywhere' : p.id < msgID'[p.rank]
    BY <1>2, <1>3, <1>4, <1>5, <2>1, <2>2
  <2>4. \A x \in Ranks : \A m \in delivered'[x] :
          m.rank \in Ranks /\ m.id \in Nat /\ m.id < msgID'[m.rank]
    BY <1>1, <1>2, <2>1 DEF OnceInv, IdsUsed
  <2>5. QED
    BY <2>3, <2>4 DEF IdsUsed
<1>8. InOnePlace'
  <2>1. \A x \in Ranks : packets \cap Held(x) = {}
    BY <1>6 DEF Everywhere, SameMessage
  <2>2. QED
    BY <1>1, <1>4, <2>1 DEF OnceInv, InOnePlace
<1>9. PacketsAgree'
  BY <1>3, <1>4, <1>6 DEF OnceInv, PacketsAgree
<1>10. NoneLeft'
  <2>1. \A x \in Ranks : \A m \in delivered[x] : \A p \in packets : ~SameMessage(m, p)
    BY <1>2, <1>3 DEF OnceInv, IdsUsed, SameMessage
  <2>2. QED
    BY <1>1, <1>4, <2>1 DEF OnceInv, NoneLeft
<1>11. QED
  BY <1>1, <1>7, <1>8, <1>9, <1>10 DEF OnceInv, ListFinite

(* MPI moves a packet from the network into a receive buffer. *)
LEMMA OnceMatch ==
  ASSUME OnceInv, TypeInv', NEW p \in network, MatchReceive(p)
  PROVE  OnceInv'
<1>1. /\ network' = network \ {p}
      /\ recvBuffers' = [recvBuffers EXCEPT ![p.dst] = @ \cup {p}]
      /\ UNCHANGED <<msgID, recvPackets, delivered>>
  BY DEF MatchReceive
<1>2. p.dst \in Ranks /\ recvBuffers \in [Ranks -> SUBSET Packet]
  BY DEF OnceInv, TypeInv, TypeOK, Packet
<1>3. \A x \in Ranks : Held(x)' = IF x = p.dst THEN Held(x) \cup {p} ELSE Held(x)
  BY <1>1, <1>2 DEF Held
<1>4. Everywhere' \subseteq Everywhere
  BY <1>1, <1>3 DEF Everywhere
<1>5. IdsUsed' /\ PacketsAgree' /\ NoneLeft'
  BY <1>1, <1>4, FewerPackets
<1>6. InOnePlace'
  <2> SUFFICES ASSUME NEW x \in Ranks
               PROVE  /\ \A q \in Held(x)' : q.dst = x
                      /\ network' \cap Held(x)' = {}
                      /\ recvBuffers'[x] \cap recvPackets'[x] = {}
    BY DEF InOnePlace
  <2>1. p \notin Held(x)
    BY DEF OnceInv, InOnePlace
  <2>2. \A q \in Held(x)' : q.dst = x
    BY <1>3 DEF OnceInv, InOnePlace
  <2>3. network' \cap Held(x)' = {}
    BY <1>1, <1>3 DEF OnceInv, InOnePlace
  <2>4. recvBuffers'[x] \cap recvPackets'[x] = {}
    BY <1>1, <1>2, <2>1 DEF OnceInv, InOnePlace, Held
  <2>5. QED
    BY <2>2, <2>3, <2>4
<1>7. QED
  BY <1>1, <1>5, <1>6 DEF OnceInv, ListFinite

(* Cleaning up drops packets from receive buffers. *)
LEMMA OnceCleanup ==
  ASSUME OnceInv, TypeInv', NEW r \in Ranks, NEW tags \in SUBSET Tags,
         CleanupRequests(r, tags)
  PROVE  OnceInv'
<1>1. /\ recvBuffers' = [recvBuffers EXCEPT ![r] = {p \in @ : p.tag \notin tags}]
      /\ UNCHANGED <<network, msgID, recvPackets, delivered>>
  BY DEF CleanupRequests
<1>2. \A x \in Ranks : recvBuffers'[x] \subseteq recvBuffers[x]
  BY <1>1 DEF OnceInv, TypeInv, TypeOK
<1>3. \A x \in Ranks : Held(x)' \subseteq Held(x)
  BY <1>1, <1>2 DEF Held
<1>4. Everywhere' \subseteq Everywhere
  BY <1>1, <1>3 DEF Everywhere
<1>5. IdsUsed' /\ PacketsAgree' /\ NoneLeft'
  BY <1>1, <1>4, FewerPackets
<1>6. InOnePlace'
  BY <1>1, <1>2, <1>3 DEF OnceInv, InOnePlace
<1>7. QED
  BY <1>1, <1>5, <1>6 DEF OnceInv, ListFinite

(* The packets of a complete message are all there are: one more, anywhere, *)
(* would make numPackets + 1 packets with distinct numbers below numPackets *)
LEMMA CompleteIsAll ==
  ASSUME OnceInv, NEW r \in Ranks, NEW done \in SUBSET recvBuffers[r],
         NEW known, known = recvPackets[r] \cup done,
         NEW p \in known, Complete(p, known),
         NEW q \in Everywhere, SameMessage(p, q)
  PROVE  q \in known
<1> DEFINE Q == PacketsOf(p, known)
           n == p.numPackets
<1>1. known \subseteq Everywhere
  BY EverywhereType DEF Held
<1>2. IsFiniteSet(known)
  <2>1. IsFiniteSet(done)
    BY FS_Subset DEF OnceInv, TypeInv, FiniteBuffers
  <2>2. QED
    BY <2>1, FS_Union DEF OnceInv, ListFinite
<1>3. IsFiniteSet(Q) /\ Cardinality(Q) = n
  BY <1>2, FS_Subset DEF Complete, PacketsOf
<1>4. SUFFICES ASSUME q \notin known PROVE FALSE
  OBVIOUS
<1>5. q \notin Q
  BY <1>4 DEF PacketsOf
<1> DEFINE S == Q \cup {q}
<1>6. n \in Nat \ {0} /\ \A x \in S : x \in Packet
  BY <1>1, EverywhereType DEF Packet, PacketsOf
<1>7. \A x \in S : x \in Everywhere /\ SameMessage(p, x)
  BY <1>1 DEF PacketsOf
<1>8. \A x \in S : x.packet \in 0 .. n - 1
  <2> SUFFICES ASSUME NEW x \in S PROVE x.packet \in 0 .. n - 1
    OBVIOUS
  <2>1. x.packet \in Nat /\ x.packet < x.numPackets
    BY <1>6, <1>7 DEF OnceInv, PacketsAgree, Packet
  <2>2. x.numPackets = n
    BY <1>1, <1>7 DEF OnceInv, PacketsAgree
  <2>3. QED
    BY <1>6, <2>1, <2>2
<1>9. \A x, y \in S : x.packet = y.packet => x = y
  <2> SUFFICES ASSUME NEW x \in S, NEW y \in S, x.packet = y.packet PROVE x = y
    OBVIOUS
  <2>1. x \in Everywhere /\ y \in Everywhere /\ SameMessage(x, y)
    BY <1>7 DEF SameMessage
  <2>2. QED
    BY <2>1 DEF OnceInv, PacketsAgree
<1> DEFINE f == [x \in S |-> x.packet]
<1> HIDE DEF n, Q
<1>10. IsFiniteSet(S) /\ Cardinality(S) = n + 1
  BY <1>3, <1>5, FS_AddElement
<1>11. IsFiniteSet(0 .. n - 1) /\ Cardinality(0 .. n - 1) = n
  BY <1>6, FS_Interval
<1>12. f \in [S -> 0 .. n - 1]
  BY <1>8
<1>13. \A x \in S : f[x] = x.packet
  OBVIOUS
<1> HIDE DEF f, S
<1>14. PICK x, y \in S : x # y /\ f[x] = f[y]
  <2>1. Cardinality(0 .. n - 1) < Cardinality(S)
    BY <1>6, <1>10, <1>11
  <2>2. QED
    BY <1>10, <1>11, <1>12, <2>1, FS_PigeonHole
<1>15. QED
  BY <1>9, <1>13, <1>14

(* RecvData returns whole messages and keeps the packets of the others.    *)
LEMMA OnceReceive ==
  ASSUME OnceInv, TypeInv', NEW r \in Ranks, NEW done \in SUBSET recvBuffers[r],
         RecvData(r, done)
  PROVE  OnceInv'
<1> DEFINE known == recvPackets[r] \cup done
           whole == {p \in known : Complete(p, known)}
<1>1. /\ recvBuffers' = [recvBuffers EXCEPT ![r] = @ \ done]
      /\ recvPackets' = [recvPackets EXCEPT ![r] = known \ whole]
      /\ delivered' = [delivered EXCEPT ![r] =
                         @ \cup {Merge(p, known) : p \in whole}]
      /\ UNCHANGED <<msgID, network>>
  BY DEF RecvData
<1>2. /\ recvBuffers \in [Ranks -> SUBSET Packet]
      /\ recvPackets \in [Ranks -> SUBSET Packet]
  BY DEF OnceInv, TypeInv, TypeOK
<1>3. whole \subseteq known /\ known \subseteq Everywhere /\ known \subseteq Held(r)
  BY EverywhereType DEF Held
<1>4. \A p \in whole : \A q \in Everywhere : SameMessage(p, q) => q \in whole
  <2> SUFFICES ASSUME NEW p \in whole, NEW q \in Everywhere, SameMessage(p, q)
               PROVE  q \in whole
    OBVIOUS
  <2>1. p \in known /\ Complete(p, known)
    OBVIOUS
  <2>2. q \in known
    <3> HIDE DEF known, whole
    <3>1. known = recvPackets[r] \cup done
      BY DEF known
    <3>2. QED
      BY <2>1, <3>1, CompleteIsAll
  <2>3. PacketsOf(p, known) = PacketsOf(q, known)
    BY DEF PacketsOf, SameMessage
  <2>4. p.numPackets = q.numPackets
    BY <1>3, <2>1 DEF OnceInv, PacketsAgree
  <2>5. Complete(q, known)
    BY <2>1, <2>3, <2>4 DEF Complete
  <2>6. QED
    BY <2>2, <2>5
<1>5. \A p \in whole : Merge(p, known).rank = p.rank /\ Merge(p, known).id = p.id
  BY DEF Merge
<1> DEFINE batch == {Merge(p, known) : p \in whole}
<1>6. \A m \in batch : \E p \in whole : m.rank = p.rank /\ m.id = p.id
  BY <1>5
<1>7. IsFiniteSet(known \ whole)
  <2>1. IsFiniteSet(done)
    BY FS_Subset DEF OnceInv, TypeInv, FiniteBuffers
  <2>2. IsFiniteSet(known)
    BY <2>1, FS_Union DEF OnceInv, ListFinite
  <2>3. QED
    BY <2>2, FS_Difference
<1>8. known \cap whole = whole /\ known = recvPackets[r] \cup done
  OBVIOUS
<1> HIDE DEF known, whole, batch
<1>9. \A x \in Ranks :
        /\ recvBuffers'[x] = IF x = r THEN recvBuffers[r] \ done ELSE recvBuffers[x]
        /\ recvPackets'[x] = IF x = r THEN known \ whole ELSE recvPackets[x]
  BY <1>1, <1>2
<1>10. \A x \in Ranks : Held(x)' = IF x = r THEN Held(x) \ whole ELSE Held(x)
  <2>1. (recvBuffers[r] \ done) \cap whole = {}
    BY <1>3, <1>8 DEF OnceInv, InOnePlace
  <2>2. Held(r)' = Held(r) \ whole
    BY <1>8, <1>9, <2>1 DEF Held
  <2>3. QED
    BY <1>9, <2>2 DEF Held
<1>11. Everywhere' = Everywhere \ whole
  <2>1. network \cap whole = {}
    BY <1>3 DEF OnceInv, InOnePlace
  <2>2. \A x \in Ranks \ {r} : Held(x) \cap whole = {}
    BY <1>3 DEF OnceInv, InOnePlace
  <2>3. QED
    BY <1>1, <1>10, <2>1, <2>2 DEF Everywhere
<1>12. \A x \in Ranks : \A m \in delivered'[x] : m \in delivered[x] \/ m \in batch
  <2> SUFFICES ASSUME NEW x \in Ranks, NEW m \in delivered'[x], m \notin delivered[x]
               PROVE  m \in batch
    OBVIOUS
  <2>1. delivered' = [delivered EXCEPT ![r] = delivered[r] \cup batch]
    BY <1>1 DEF batch
  <2>2. DOMAIN delivered = Ranks
    BY DEF OnceInv, TypeInv, DeliveredFunction
  <2>3. QED
    BY <2>1, <2>2
<1>13. \A m \in batch : m.rank \in Ranks /\ m.id \in Nat /\ m.id < msgID[m.rank]
  <2> SUFFICES ASSUME NEW m \in batch
               PROVE  m.rank \in Ranks /\ m.id \in Nat /\ m.id < msgID[m.rank]
    OBVIOUS
  <2>1. PICK p \in whole : m.rank = p.rank /\ m.id = p.id
    BY <1>6
  <2>2. p \in Packet /\ p \in Everywhere
    BY <1>3, EverywhereType
  <2>3. QED
    BY <2>1, <2>2 DEF OnceInv, IdsUsed, Packet
<1>14. IdsUsed'
  BY <1>1, <1>11, <1>12, <1>13 DEF OnceInv, IdsUsed
<1>15. InOnePlace'
  BY <1>1, <1>3, <1>8, <1>9, <1>10 DEF OnceInv, InOnePlace
<1>16. PacketsAgree'
  BY <1>11 DEF OnceInv, PacketsAgree
<1>17. NoneLeft'
  <2> SUFFICES ASSUME NEW x \in Ranks, NEW m \in delivered'[x],
                      NEW q \in Everywhere \ whole, SameMessage(m, q)
               PROVE  FALSE
    BY <1>11 DEF NoneLeft, SameMessage
  <2>1. CASE m \in delivered[x]
    BY <2>1 DEF OnceInv, NoneLeft
  <2>2. CASE m \in batch
    <3>1. PICK p \in whole : m.rank = p.rank /\ m.id = p.id
      BY <1>6, <2>2
    <3>2. QED
      BY <1>4, <3>1 DEF SameMessage
  <2>3. QED
    BY <1>12, <2>1, <2>2
<1>18. ListFinite'
  BY <1>7, <1>9 DEF OnceInv, ListFinite
<1>19. QED
  BY <1>14, <1>15, <1>16, <1>17, <1>18 DEF OnceInv

LEMMA OnceNext == OnceInv /\ [Next]_vars => OnceInv'
<1> SUFFICES ASSUME OnceInv, [Next]_vars PROVE OnceInv'
  OBVIOUS
<1>1. TypeInv'
  BY TypeInvNext DEF OnceInv
<1>2. ASSUME UNCHANGED <<network, msgID, recvBuffers, recvPackets, delivered>>
      PROVE  OnceInv'
  BY <1>1, <1>2 DEF OnceInv, IdsUsed, InOnePlace, PacketsAgree, ListFinite,
                    NoneLeft, Everywhere, Held
<1>3. ASSUME NEW r \in Ranks, NEW t \in Tags, RegisterTag(r, t) PROVE OnceInv'
  BY <1>2, <1>3 DEF RegisterTag
<1>4. ASSUME NEW r \in Ranks, InitializeBuffers(r) PROVE OnceInv'
  BY <1>2, <1>4 DEF InitializeBuffers
<1>5. ASSUME NEW r \in Ranks, NEW done, CheckPendingSendRequests(r, done)
      PROVE  OnceInv'
  BY <1>2, <1>5 DEF CheckPendingSendRequests, local
<1>6. CASE UNCHANGED vars
  BY <1>2, <1>6 DEF vars
<1>7. QED
  BY <1>1, <1>3, <1>4, <1>5, <1>6, OnceSend, OnceMatch, OnceReceive, OnceCleanup
     DEF Next

(* Messenger.cpp:303-313, 327-393: once RecvData has returned a message no *)
(* packet of it is left in the network, in a receive or on the reassembly  *)
(* list, for any pool size, packet size and order of completion: it cannot *)
(* be returned again.                                                      *)
THEOREM ReturnedAtMostOnce == Spec => []AtMostOnce
<1>1. OnceInv => AtMostOnce
  BY DEF OnceInv, NoneLeft, AtMostOnce, Everywhere
<1>2. Spec => []OnceInv
  BY OnceInit, OnceNext, PTL DEF Spec
<1>3. QED
  BY <1>1, <1>2, PTL

-----------------------------------------------------------------------------
(* The pool of receives.                                                   *)

(* Tags are cleaned up only after the pool has been set up. *)
ClosedAfterReady == \A r \in Ranks : ready[r] \/ closed[r] = {}

PoolInv == OnceInv /\ ClosedAfterReady /\ PoolConserved

(* The matched receives of tag t on rank r. *)
Matched(r, t) == {p \in recvBuffers[r] : p.tag = t}

LEMMA MatchedFinite ==
  ASSUME TypeInv
  PROVE  \A r \in Ranks : \A t \in Tags :
           IsFiniteSet(Matched(r, t)) /\ Cardinality(Matched(r, t)) \in Nat
BY FS_Subset, FS_CardinalityType DEF TypeInv, FiniteBuffers, Matched

LEMMA PoolInit == Init => PoolInv
<1> SUFFICES ASSUME Init PROVE PoolInv
  OBVIOUS
<1>1. \A r \in Ranks : \A t \in Tags : {p \in recvBuffers[r] : p.tag = t} = {}
  BY DEF Init
<1>2. Cardinality({}) = 0
  BY FS_EmptySet
<1>3. QED
  BY <1>1, <1>2, OnceInit DEF Init, PoolInv, PoolConserved, ClosedAfterReady

LEMMA PoolMatch ==
  ASSUME PoolInv, NEW p \in network, MatchReceive(p)
  PROVE  PoolConserved'
<1>1. /\ posted[p.dst][p.tag] > 0
      /\ posted' = [posted EXCEPT ![p.dst][p.tag] = @ - 1]
      /\ recvBuffers' = [recvBuffers EXCEPT ![p.dst] = @ \cup {p}]
      /\ UNCHANGED <<ready, closed>>
  BY DEF MatchReceive, local
<1>2. /\ p.dst \in Ranks /\ p.tag \in Tags
      /\ recvBuffers \in [Ranks -> SUBSET Packet]
      /\ posted \in [Ranks -> [Tags -> Nat]]
  BY DEF PoolInv, OnceInv, TypeInv, TypeOK, Packet
<1> SUFFICES ASSUME NEW r \in Ranks, NEW t \in Tags
             PROVE  posted'[r][t] + Cardinality(Matched(r, t)') =
                      posted[r][t] + Cardinality(Matched(r, t))
  BY <1>1 DEF PoolInv, PoolConserved, Matched
<1>3. IsFiniteSet(Matched(r, t)) /\ Cardinality(Matched(r, t)) \in Nat
  BY MatchedFinite DEF PoolInv, OnceInv
<1>4. CASE r = p.dst /\ t = p.tag
  <2>1. Matched(r, t)' = Matched(r, t) \cup {p}
    BY <1>1, <1>2, <1>4 DEF Matched
  <2>2. p \notin Matched(r, t)
    BY DEF PoolInv, OnceInv, InOnePlace, Held, Matched
  <2>3. Cardinality(Matched(r, t)') = Cardinality(Matched(r, t)) + 1
    BY <1>3, <2>1, <2>2, FS_AddElement
  <2>4. posted'[r][t] = posted[r][t] - 1
    BY <1>1, <1>2, <1>4
  <2>5. posted[r][t] \in Nat
    BY <1>2
  <2>6. QED
    BY <1>3, <2>3, <2>4, <2>5
<1>5. CASE ~(r = p.dst /\ t = p.tag)
  <2>1. Matched(r, t)' = Matched(r, t)
    BY <1>1, <1>2, <1>5 DEF Matched
  <2>2. posted'[r][t] = posted[r][t]
    BY <1>1, <1>2, <1>5
  <2>3. QED
    BY <2>1, <2>2
<1>6. QED
  BY <1>4, <1>5

LEMMA PoolReceive ==
  ASSUME PoolInv, NEW q \in Ranks, NEW done \in SUBSET recvBuffers[q],
         RecvData(q, done)
  PROVE  PoolConserved'
<1>1. /\ posted' = [posted EXCEPT ![q] = RePosted(q, done)]
      /\ recvBuffers' = [recvBuffers EXCEPT ![q] = @ \ done]
      /\ UNCHANGED <<ready, closed>>
  BY DEF RecvData, local
<1>2. /\ recvBuffers \in [Ranks -> SUBSET Packet]
      /\ posted \in [Ranks -> [Tags -> Nat]]
  BY DEF PoolInv, OnceInv, TypeInv, TypeOK
<1> SUFFICES ASSUME NEW r \in Ranks, NEW t \in Tags
             PROVE  posted'[r][t] + Cardinality(Matched(r, t)') =
                      posted[r][t] + Cardinality(Matched(r, t))
  BY <1>1 DEF PoolInv, PoolConserved, Matched
<1>3. CASE r # q
  BY <1>1, <1>2, <1>3 DEF Matched
<1>4. CASE r = q
  <2> DEFINE M == Matched(q, t)
             D == {p \in done : p.tag = t}
  <2>1. IsFiniteSet(M) /\ Cardinality(M) \in Nat
    BY MatchedFinite DEF PoolInv, OnceInv
  <2>2. Matched(q, t)' = M \ D
    BY <1>1, <1>2 DEF Matched
  <2>3. M \cap D = D /\ D \subseteq M
    BY DEF Matched
  <2>4. posted'[q][t] = posted[q][t] + Cardinality(D)
    BY <1>1, <1>2 DEF RePosted
  <2> HIDE DEF M, D
  <2>5. Cardinality(M \ D) = Cardinality(M) - Cardinality(D)
    BY <2>1, <2>3, FS_Difference
  <2>6. Cardinality(D) \in Nat
    BY <2>1, <2>3, FS_Subset, FS_CardinalityType
  <2>7. posted[q][t] \in Nat
    BY <1>2
  <2>8. QED
    BY <1>4, <2>1, <2>2, <2>4, <2>5, <2>6, <2>7 DEF M
<1>5. QED
  BY <1>3, <1>4

LEMMA PoolCleanup ==
  ASSUME PoolInv, NEW q \in Ranks, NEW tags \in SUBSET Tags,
         CleanupRequests(q, tags)
  PROVE  PoolConserved'
<1>1. /\ posted' = [posted EXCEPT ![q] =
                      [t \in Tags |-> IF t \in tags THEN 0 ELSE @[t]]]
      /\ recvBuffers' = [recvBuffers EXCEPT ![q] = {p \in @ : p.tag \notin tags}]
      /\ closed' = [closed EXCEPT ![q] = @ \cup tags]
      /\ UNCHANGED ready
  BY DEF CleanupRequests, local
<1>2. /\ recvBuffers \in [Ranks -> SUBSET Packet]
      /\ posted \in [Ranks -> [Tags -> Nat]]
      /\ closed \in [Ranks -> SUBSET Tags]
  BY DEF PoolInv, OnceInv, TypeInv, TypeOK
<1> SUFFICES ASSUME NEW r \in Ranks, NEW t \in Tags
             PROVE  posted'[r][t] + Cardinality(Matched(r, t)') =
                      IF ready'[r] /\ t \notin closed'[r] THEN NumRecvs[t] ELSE 0
  BY DEF PoolConserved, Matched
<1>3. posted[r][t] + Cardinality(Matched(r, t)) =
        IF ready[r] /\ t \notin closed[r] THEN NumRecvs[t] ELSE 0
  BY DEF PoolInv, PoolConserved, Matched
<1>4. CASE r = q /\ t \in tags
  <2>1. Matched(r, t)' = {} /\ posted'[r][t] = 0 /\ t \in closed'[r]
    BY <1>1, <1>2, <1>4 DEF Matched
  <2>2. QED
    BY <2>1, FS_EmptySet
<1>5. CASE ~(r = q /\ t \in tags)
  <2>1. /\ Matched(r, t)' = Matched(r, t)
        /\ posted'[r][t] = posted[r][t]
        /\ t \in closed'[r] <=> t \in closed[r]
    BY <1>1, <1>2, <1>5 DEF Matched
  <2>2. QED
    BY <1>1, <1>3, <2>1
<1>6. QED
  BY <1>4, <1>5

LEMMA PoolSetUp ==
  ASSUME PoolInv, NEW q \in Ranks, InitializeBuffers(q)
  PROVE  PoolConserved'
<1>1. /\ ~ready[q]
      /\ ready' = [ready EXCEPT ![q] = TRUE]
      /\ posted' = [posted EXCEPT ![q] = [t \in Tags |-> @[t] + NumRecvs[t]]]
      /\ UNCHANGED <<recvBuffers, closed>>
  BY DEF InitializeBuffers
<1>2. /\ posted \in [Ranks -> [Tags -> Nat]]
      /\ ready \in [Ranks -> BOOLEAN]
      /\ closed[q] = {}
  BY <1>1 DEF PoolInv, OnceInv, TypeInv, TypeOK, ClosedAfterReady
<1> SUFFICES ASSUME NEW r \in Ranks, NEW t \in Tags
             PROVE  posted'[r][t] + Cardinality(Matched(r, t)) =
                      IF ready'[r] /\ t \notin closed[r] THEN NumRecvs[t] ELSE 0
  BY <1>1 DEF PoolConserved, Matched
<1>3. posted[r][t] + Cardinality(Matched(r, t)) =
        IF ready[r] /\ t \notin closed[r] THEN NumRecvs[t] ELSE 0
  BY DEF PoolInv, PoolConserved, Matched
<1>4. CASE r = q
  <2>1. posted'[r][t] = posted[r][t] + NumRecvs[t] /\ ready'[r]
    BY <1>1, <1>2, <1>4
  <2>2. Cardinality(Matched(r, t)) \in Nat /\ NumRecvs[t] \in Nat
    BY MatchedFinite, TagAssumption DEF PoolInv, OnceInv
  <2>3. posted[r][t] \in Nat /\ posted[r][t] + Cardinality(Matched(r, t)) = 0
    BY <1>1, <1>2, <1>3, <1>4
  <2>4. QED
    BY <1>2, <1>4, <2>1, <2>2, <2>3
<1>5. CASE r # q
  BY <1>1, <1>2, <1>3, <1>5
<1>6. QED
  BY <1>4, <1>5

LEMMA PoolNext == PoolInv /\ [Next]_vars => PoolInv'
<1> SUFFICES ASSUME PoolInv, [Next]_vars PROVE PoolInv'
  OBVIOUS
<1>1. OnceInv'
  BY OnceNext DEF PoolInv
<1>2. ClosedAfterReady'
  BY ZenonT(60) DEF PoolInv, OnceInv, TypeInv, TypeOK, ClosedAfterReady, Next, RegisterTag,
         InitializeBuffers, SendData, RecvData, CheckPendingSendRequests,
         CleanupRequests, MatchReceive, local, vars
<1>3. PoolConserved'
  <2>1. ASSUME UNCHANGED <<posted, recvBuffers, ready, closed>>
        PROVE  PoolConserved'
    BY <2>1 DEF PoolInv, PoolConserved
  <2>2. ASSUME NEW r \in Ranks, NEW t \in Tags, RegisterTag(r, t)
        PROVE  PoolConserved'
    BY <2>1, <2>2 DEF RegisterTag
  <2>3. ASSUME NEW r \in Ranks, NEW dst \in Ranks, NEW t \in Tags,
               NEW len \in Lengths, SendData(r, dst, t, len)
        PROVE  PoolConserved'
    BY <2>1, <2>3 DEF SendData, local
  <2>4. ASSUME NEW r \in Ranks, NEW done, CheckPendingSendRequests(r, done)
        PROVE  PoolConserved'
    BY <2>1, <2>4 DEF CheckPendingSendRequests, local
  <2>5. CASE UNCHANGED vars
    BY <2>1, <2>5 DEF vars
  <2>6. QED
    BY <2>2, <2>3, <2>4, <2>5, PoolMatch, PoolReceive, PoolCleanup, PoolSetUp
       DEF Next
<1>4. QED
  BY <1>1, <1>2, <1>3 DEF PoolInv

(* Messenger.cpp:47-58, 318-319 and Messenger.hpp:34: from InitializeBuffers *)
(* until the tag is cleaned up, exactly the registered number of receives   *)
(* is posted or matched, whatever completes and however it is polled.       *)
THEOREM PoolIsConserved == Spec => []PoolConserved
<1>1. PoolInv => PoolConserved
  BY DEF PoolInv
<1>2. QED
  BY <1>1, PoolInit, PoolNext, PTL DEF Spec

-----------------------------------------------------------------------------
(* No packet is lost.  As long as no message with its rank and id has been *)
(* returned, a message has all its packets underway or held.               *)

(* What SendData has been handed. *)
SentTypes ==
  \A m \in sent :
    /\ m.rank \in Ranks /\ m.dst \in Ranks /\ m.tag \in Tags
    /\ m.id \in Nat /\ Len(m.data) \in Nat

Packets(m) == PrepareForSend(m.rank, m.dst, m.id, m.tag, Len(m.data))

Returned(m) == \E d \in delivered[m.dst] : SameMessage(m, d)

AllSomewhere ==
  \A m \in sent :
    \/ Returned(m)
    \/ m.tag \in closed[m.dst]
    \/ Packets(m) \subseteq network \cup Held(m.dst)

KeepInv == OnceInv /\ SentTypes /\ AllSomewhere

LEMMA PacketsAddressed ==
  ASSUME NEW m, NEW p \in Packets(m)
  PROVE  p.dst = m.dst /\ p.tag = m.tag /\ SameMessage(m, p)
BY DEF Packets, PrepareForSend, PacketOf, SameMessage

LEMMA BytesLen ==
  ASSUME NEW n \in Nat
  PROVE  Len(Bytes(0, n)) = n
<1>1. Bytes(0, n) \in Seq(Nat)
  BY BytesType
<1>2. DOMAIN Bytes(0, n) = 1 .. n
  BY DEF Bytes
<1>3. QED
  BY <1>1, <1>2, LenProperties

LEMMA KeepInit == Init => KeepInv
BY OnceInit DEF Init, KeepInv, SentTypes, AllSomewhere

LEMMA KeepSend ==
  ASSUME KeepInv, NEW r \in Ranks, NEW dst \in Ranks, NEW t \in Tags,
         NEW len \in Lengths, SendData(r, dst, t, len)
  PROVE  SentTypes' /\ AllSomewhere'
<1> DEFINE m == [rank |-> r, dst |-> dst, id |-> msgID[r], tag |-> t,
                 data |-> Bytes(0, len)]
<1>1. /\ network' = network \cup PrepareForSend(r, dst, msgID[r], t, len)
      /\ sent' = sent \cup {m}
      /\ UNCHANGED <<recvBuffers, recvPackets, delivered, closed>>
  BY DEF SendData
<1>2. len \in Nat /\ msgID[r] \in Nat
  BY BoundAssumption DEF KeepInv, OnceInv, TypeInv, TypeOK
<1>3. Len(m.data) = len
  BY <1>2, BytesLen
<1>4. Packets(m) = PrepareForSend(r, dst, msgID[r], t, len)
  BY <1>3 DEF Packets
<1>5. /\ m.rank = r /\ m.dst = dst /\ m.tag = t /\ m.id = msgID[r]
  OBVIOUS
<1> HIDE DEF m
<1>6. SentTypes'
  BY <1>1, <1>2, <1>3, <1>5 DEF KeepInv, SentTypes
<1>7. AllSomewhere'
  <2>1. \A x : Held(x)' = Held(x) /\ Returned(x)' = Returned(x)
    BY <1>1 DEF Held, Returned
  <2>2. SUFFICES ASSUME NEW x \in sent'
                 PROVE  \/ Returned(x)
                        \/ x.tag \in closed[x.dst]
                        \/ Packets(x) \subseteq network' \cup Held(x.dst)
    BY <1>1, <2>1 DEF AllSomewhere
  <2>3. CASE x = m
    BY <1>1, <1>4, <2>3
  <2>4. CASE x \in sent
    BY <1>1, <2>4 DEF KeepInv, AllSomewhere
  <2>5. QED
    BY <1>1, <2>3, <2>4
<1>8. QED
  BY <1>6, <1>7

(* MPI moves a packet only to the rank it is addressed to. *)
LEMMA KeepMatch ==
  ASSUME KeepInv, NEW p \in network, MatchReceive(p)
  PROVE  AllSomewhere'
<1>1. /\ network' = network \ {p}
      /\ recvBuffers' = [recvBuffers EXCEPT ![p.dst] = @ \cup {p}]
      /\ UNCHANGED <<recvPackets, sent, delivered, closed>>
  BY DEF MatchReceive
<1>2. recvBuffers \in [Ranks -> SUBSET Packet]
  BY DEF KeepInv, OnceInv, TypeInv, TypeOK
<1> SUFFICES ASSUME NEW m \in sent, ~Returned(m), m.tag \notin closed[m.dst],
                    NEW q \in Packets(m)
             PROVE  q \in network' \cup Held(m.dst)'
  BY <1>1 DEF AllSomewhere, Returned
<1>3. q \in network \cup Held(m.dst)
  BY DEF KeepInv, AllSomewhere
<1>4. Held(m.dst) \subseteq Held(m.dst)'
  BY <1>1, <1>2 DEF KeepInv, SentTypes, Held
<1>5. CASE q = p
  <2>1. p.dst = m.dst /\ m.dst \in Ranks
    BY <1>5, PacketsAddressed DEF KeepInv, SentTypes
  <2>2. QED
    BY <1>1, <1>2, <1>5, <2>1 DEF Held
<1>6. CASE q # p
  BY <1>1, <1>3, <1>4, <1>6
<1>7. QED
  BY <1>5, <1>6

(* RecvData drops packets from the list only with the message they make.   *)
LEMMA KeepReceive ==
  ASSUME KeepInv, NEW r \in Ranks, NEW done \in SUBSET recvBuffers[r],
         RecvData(r, done)
  PROVE  AllSomewhere'
<1> DEFINE known == recvPackets[r] \cup done
           whole == {p \in known : Complete(p, known)}
           batch == {Merge(p, known) : p \in whole}
<1>1. /\ recvBuffers' = [recvBuffers EXCEPT ![r] = @ \ done]
      /\ recvPackets' = [recvPackets EXCEPT ![r] = known \ whole]
      /\ delivered' = [delivered EXCEPT ![r] = @ \cup batch]
      /\ UNCHANGED <<network, sent, closed>>
  BY DEF RecvData
<1>2. /\ recvBuffers \in [Ranks -> SUBSET Packet]
      /\ recvPackets \in [Ranks -> SUBSET Packet]
      /\ DOMAIN delivered = Ranks
  BY DEF KeepInv, OnceInv, TypeInv, TypeOK, DeliveredFunction
<1>3. \A p \in whole : \E d \in batch : d.rank = p.rank /\ d.id = p.id
  <2>1. \A p \in whole : Merge(p, known).rank = p.rank /\ Merge(p, known).id = p.id
    BY DEF Merge
  <2>2. \A p \in whole : Merge(p, known) \in batch
    OBVIOUS
  <2> HIDE DEF known, whole, batch
  <2>3. QED
    BY <2>1, <2>2
<1>4. known = recvPackets[r] \cup done
  OBVIOUS
<1> HIDE DEF known, whole, batch
<1> SUFFICES ASSUME NEW m \in sent, ~Returned(m)', m.tag \notin closed[m.dst],
                    NEW q \in Packets(m)
             PROVE  q \in network \cup Held(m.dst)'
  BY <1>1 DEF AllSomewhere
<1>5. m.dst \in Ranks
  BY DEF KeepInv, SentTypes
<1>6. ~Returned(m)
  BY <1>1, <1>2, <1>5 DEF Returned
<1>7. q \in network \cup Held(m.dst)
  BY <1>6 DEF KeepInv, AllSomewhere
<1>8. CASE m.dst # r
  BY <1>1, <1>2, <1>5, <1>7, <1>8 DEF Held
<1>9. CASE m.dst = r
  <2>1. q \notin whole
    <3> SUFFICES ASSUME q \in whole PROVE FALSE
      OBVIOUS
    <3>1. PICK d \in batch : d.rank = q.rank /\ d.id = q.id
      BY <1>3
    <3>2. d \in delivered'[r]
      BY <1>1, <1>2, <3>1
    <3>3. SameMessage(m, d)
      BY <3>1, PacketsAddressed DEF SameMessage
    <3>4. QED
      BY <1>9, <3>2, <3>3 DEF Returned
  <2>2. Held(r)' = (recvBuffers[r] \ done) \cup (known \ whole)
    BY <1>1, <1>2 DEF Held
  <2>3. Held(r) \ whole \subseteq Held(r)'
    BY <1>4, <2>2 DEF Held
  <2>4. QED
    BY <1>7, <1>9, <2>1, <2>3
<1>10. QED
  BY <1>8, <1>9

LEMMA KeepCleanup ==
  ASSUME KeepInv, NEW r \in Ranks, NEW tags \in SUBSET Tags,
         CleanupRequests(r, tags)
  PROVE  AllSomewhere'
<1>1. /\ recvBuffers' = [recvBuffers EXCEPT ![r] = {p \in @ : p.tag \notin tags}]
      /\ closed' = [closed EXCEPT ![r] = @ \cup tags]
      /\ UNCHANGED <<network, recvPackets, sent, delivered>>
  BY DEF CleanupRequests
<1>2. /\ recvBuffers \in [Ranks -> SUBSET Packet]
      /\ closed \in [Ranks -> SUBSET Tags]
  BY DEF KeepInv, OnceInv, TypeInv, TypeOK
<1> SUFFICES ASSUME NEW m \in sent, ~Returned(m), m.tag \notin closed'[m.dst],
                    NEW q \in Packets(m)
             PROVE  q \in network \cup Held(m.dst)'
  BY <1>1 DEF AllSomewhere, Returned
<1>3. m.dst \in Ranks /\ q.tag = m.tag
  BY PacketsAddressed DEF KeepInv, SentTypes
<1>4. m.tag \notin closed[m.dst] /\ (m.dst = r => m.tag \notin tags)
  BY <1>1, <1>2, <1>3
<1>5. q \in network \cup Held(m.dst)
  BY <1>4 DEF KeepInv, AllSomewhere
<1>6. QED
  BY <1>1, <1>2, <1>3, <1>4, <1>5 DEF Held

LEMMA KeepNext == KeepInv /\ [Next]_vars => KeepInv'
<1> SUFFICES ASSUME KeepInv, [Next]_vars PROVE KeepInv'
  OBVIOUS
<1>1. OnceInv'
  BY OnceNext DEF KeepInv
<1>2. SentTypes' /\ AllSomewhere'
  <2>1. ASSUME UNCHANGED <<network, recvBuffers, recvPackets, sent, delivered, closed>>
        PROVE  SentTypes' /\ AllSomewhere'
    BY <2>1 DEF KeepInv, SentTypes, AllSomewhere, Returned, Held
  <2>2. ASSUME NEW r \in Ranks, NEW t \in Tags, RegisterTag(r, t)
        PROVE  SentTypes' /\ AllSomewhere'
    BY <2>1, <2>2 DEF RegisterTag
  <2>3. ASSUME NEW r \in Ranks, InitializeBuffers(r)
        PROVE  SentTypes' /\ AllSomewhere'
    BY <2>1, <2>3 DEF InitializeBuffers
  <2>4. ASSUME NEW r \in Ranks, NEW done, CheckPendingSendRequests(r, done)
        PROVE  SentTypes' /\ AllSomewhere'
    BY <2>1, <2>4 DEF CheckPendingSendRequests
  <2>5. CASE UNCHANGED vars
    BY <2>1, <2>5 DEF vars
  <2>6. ASSUME UNCHANGED sent PROVE SentTypes'
    BY <2>6 DEF KeepInv, SentTypes
  <2>7. ASSUME NEW p \in network, MatchReceive(p)
        PROVE  SentTypes' /\ AllSomewhere'
    BY <2>6, <2>7, KeepMatch DEF MatchReceive
  <2>8. ASSUME NEW r \in Ranks, NEW done \in SUBSET recvBuffers[r], RecvData(r, done)
        PROVE  SentTypes' /\ AllSomewhere'
    BY <2>6, <2>8, KeepReceive DEF RecvData
  <2>9. ASSUME NEW r \in Ranks, NEW tags \in SUBSET Tags, CleanupRequests(r, tags)
        PROVE  SentTypes' /\ AllSomewhere'
    BY <2>6, <2>9, KeepCleanup DEF CleanupRequests
  <2>10. QED
    BY <2>2, <2>3, <2>4, <2>5, <2>7, <2>8, <2>9, KeepSend DEF Next
<1>3. QED
  BY <1>1, <1>2 DEF KeepInv

-----------------------------------------------------------------------------
(* Reassembly.  The packets of a message put in the order of their numbers *)
(* and joined are the message.                                             *)

LEMMA BytesIs ==
  ASSUME NEW pos \in Nat, NEW n \in Nat
  PROVE  /\ Bytes(pos, n) \in Seq(Nat)
         /\ Len(Bytes(pos, n)) = n
         /\ \A j \in 1 .. n : Bytes(pos, n)[j] = pos + j
<1>1. Bytes(pos, n) \in Seq(Nat)
  BY BytesType
<1>2. DOMAIN Bytes(pos, n) = 1 .. n /\ \A j \in 1 .. n : Bytes(pos, n)[j] = pos + j
  BY DEF Bytes
<1>3. QED
  BY <1>1, <1>2, LenProperties

(* Two neighbouring pieces of a message joined are one piece of it. *)
LEMMA BytesConcat ==
  ASSUME NEW pos \in Nat, NEW a \in Nat, NEW b \in Nat
  PROVE  Bytes(pos, a) \o Bytes(pos + a, b) = Bytes(pos, a + b)
<1> DEFINE s == Bytes(pos, a)
           t == Bytes(pos + a, b)
           u == Bytes(pos, a + b)
<1>1. pos + a \in Nat /\ a + b \in Nat
  OBVIOUS
<1>2. s \in Seq(Nat) /\ Len(s) = a /\ \A j \in 1 .. a : s[j] = pos + j
  BY BytesIs
<1>3. t \in Seq(Nat) /\ Len(t) = b /\ \A j \in 1 .. b : t[j] = pos + a + j
  BY <1>1, BytesIs
<1>4. u \in Seq(Nat) /\ Len(u) = a + b /\ \A j \in 1 .. a + b : u[j] = pos + j
  BY <1>1, BytesIs
<1> HIDE DEF s, t, u
<1>5. /\ s \o t \in Seq(Nat) /\ Len(s \o t) = a + b
      /\ \A i \in 1 .. a + b : (s \o t)[i] = IF i <= a THEN s[i] ELSE t[i - a]
  BY <1>2, <1>3, ConcatProperties
<1>6. \A i \in 1 .. a + b : (s \o t)[i] = u[i]
  <2> SUFFICES ASSUME NEW i \in 1 .. a + b PROVE (s \o t)[i] = u[i]
    OBVIOUS
  <2>1. CASE i <= a
    BY <1>2, <1>4, <1>5, <2>1
  <2>2. CASE ~(i <= a)
    <3>1. i - a \in 1 .. b
      BY <2>2
    <3>2. t[i - a] = pos + i
      BY <1>3, <3>1
    <3>3. QED
      BY <1>4, <1>5, <2>2, <3>2
  <2>3. QED
    BY <2>1, <2>2
<1>7. QED
  BY <1>4, <1>5, <1>6, SeqEqual DEF s, t, u

LEMMA DivTimes ==
  ASSUME NEW a \in Nat, NEW b \in Nat \ {0}
  PROVE  b * (a \div b) <= a
OBVIOUS

(* All packets but the last carry MaxDataLen bytes: together they do not   *)
(* exceed the message.                                                     *)
LEMMA FullPackets ==
  ASSUME NEW tag \in Tags, NEW len \in Nat
  PROVE  (NumPackets(tag, len) - 1) * MaxDataLen[tag] <= len
<1>1. MaxDataLen[tag] \in Nat \ {0}
  BY TagAssumption
<1> DEFINE m == MaxDataLen[tag]
<1> HIDE DEF m
<1>2. m * (len \div m) <= len
  BY <1>1, DivTimes DEF m
<1>3. len \div m \in Nat /\ m \in Nat
  BY <1>1 DEF m
<1>4. CASE len > m
  <2>1. NumPackets(tag, len) - 1 = len \div m
    BY <1>3, <1>4 DEF NumPackets, m
  <2>2. (NumPackets(tag, len) - 1) * m = m * (len \div m)
    BY <1>3, <2>1
  <2>3. QED
    BY <1>2, <2>2 DEF m
<1>5. CASE ~(len > m)
  <2>1. NumPackets(tag, len) - 1 = 0
    BY <1>5 DEF NumPackets, m
  <2>2. QED
    BY <1>1, <2>1
<1>6. QED
  BY <1>4, <1>5

Below(packets, k) == {q \in packets : q.packet < k}

(* Of the packets of a message, k have a number below k. *)
LEMMA PacketsBelow ==
  ASSUME NEW r, NEW dst, NEW id, NEW tag \in Tags, NEW len \in Nat,
         NEW k \in 0 .. NumPackets(tag, len)
  PROVE  /\ IsFiniteSet(Below(PrepareForSend(r, dst, id, tag, len), k))
         /\ Cardinality(Below(PrepareForSend(r, dst, id, tag, len), k)) = k
<1> DEFINE I == 0 .. k - 1
           P == PrepareForSend(r, dst, id, tag, len)
           B == Below(P, k)
           f == [i \in I |-> PacketOf(r, dst, id, tag, len, i)]
<1>1. NumPackets(tag, len) \in Nat \ {0}
  BY NumPacketsType
<1>2. IsFiniteSet(I) /\ Cardinality(I) = k
  <2>1. k \in Nat /\ k - 1 \in Int /\ 0 \in Int
    BY <1>1
  <2>2. /\ IsFiniteSet(0 .. (k - 1))
        /\ Cardinality(0 .. (k - 1)) = IF 0 > k - 1 THEN 0 ELSE (k - 1) - 0 + 1
    BY <2>1, FS_Interval
  <2>3. QED
    BY <2>1, <2>2
<1>3. \A i : PacketOf(r, dst, id, tag, len, i).packet = i
  BY DEF PacketOf
<1>4. \A i \in I : f[i] \in B
  <2> SUFFICES ASSUME NEW i \in I PROVE f[i] \in B
    OBVIOUS
  <2>1. f[i] \in P
    BY <1>1 DEF PrepareForSend
  <2>2. f[i].packet = i /\ i < k
    BY <1>1, <1>3
  <2>3. QED
    BY <2>1, <2>2 DEF Below
<1>5. \A i, j \in I : f[i] = f[j] => i = j
  BY <1>3
<1>6. \A b \in B : \E i \in I : f[i] = b
  <2> SUFFICES ASSUME NEW b \in B PROVE \E i \in I : f[i] = b
    OBVIOUS
  <2>1. PICK i \in 0 .. NumPackets(tag, len) - 1 : b = PacketOf(r, dst, id, tag, len, i)
    BY DEF PrepareForSend, Below
  <2>2. i \in I
    BY <1>1, <1>3, <2>1 DEF Below
  <2>3. QED
    BY <2>1, <2>2
<1>7. f \in Bijection(I, B)
  <2>1. f \in [I -> B]
    BY <1>4
  <2> HIDE DEF f, B, I
  <2>2. f \in Injection(I, B)
    BY <1>5, <2>1 DEF Injection, IsInjective
  <2>3. f \in Surjection(I, B)
    BY <1>6, <2>1 DEF Surjection
  <2>4. QED
    BY <2>2, <2>3 DEF Bijection
<1> HIDE DEF f, B, I
<1>8. IsFiniteSet(B) /\ Cardinality(B) = k
  BY <1>2, <1>7, FS_Bijection DEF ExistsBijection
<1>9. QED
  BY <1>8 DEF B, P

LEMMA PrepareForSendCount ==
  ASSUME NEW r, NEW dst, NEW id, NEW tag \in Tags, NEW len \in Nat
  PROVE  /\ IsFiniteSet(PrepareForSend(r, dst, id, tag, len))
         /\ Cardinality(PrepareForSend(r, dst, id, tag, len)) = NumPackets(tag, len)
<1> DEFINE P == PrepareForSend(r, dst, id, tag, len)
           n == NumPackets(tag, len)
<1>1. n \in Nat \ {0}
  BY NumPacketsType
<1>2. n \in 0 .. n
  BY <1>1
<1>3. Below(P, n) = P
  BY <1>1 DEF PrepareForSend, PacketOf, Below
<1>4. QED
  BY <1>2, <1>3, PacketsBelow

PacketList(r, dst, id, tag, len) ==
  [i \in 1 .. NumPackets(tag, len) |-> PacketOf(r, dst, id, tag, len, i - 1)]

(* The i-th packet in order is the one numbered i - 1. *)
LEMMA PacketsInOrder ==
  ASSUME NEW r, NEW dst, NEW id, NEW tag \in Tags, NEW len \in Nat
  PROVE  InOrder(PrepareForSend(r, dst, id, tag, len)) = PacketList(r, dst, id, tag, len)
<1> DEFINE P == PrepareForSend(r, dst, id, tag, len)
           n == NumPackets(tag, len)
           before(p) == Below(P, p.packet)
<1>1. n \in Nat \ {0}
  BY NumPacketsType
<1>2. Cardinality(P) = n
  BY PrepareForSendCount
<1>3. \A j \in 0 .. n - 1 :
        /\ PacketOf(r, dst, id, tag, len, j) \in P
        /\ Cardinality(before(PacketOf(r, dst, id, tag, len, j))) = j
  <2> SUFFICES ASSUME NEW j \in 0 .. n - 1
               PROVE  /\ PacketOf(r, dst, id, tag, len, j) \in P
                      /\ Cardinality(before(PacketOf(r, dst, id, tag, len, j))) = j
    OBVIOUS
  <2>1. PacketOf(r, dst, id, tag, len, j).packet = j
    BY DEF PacketOf
  <2>2. j \in 0 .. n
    BY <1>1
  <2>3. Cardinality(Below(P, j)) = j
    BY <2>2, PacketsBelow
  <2>4. QED
    BY <2>1, <2>3 DEF PrepareForSend
<1>4. \A p \in P : \E j \in 0 .. n - 1 : p = PacketOf(r, dst, id, tag, len, j)
  BY DEF PrepareForSend
<1>5. InOrder(P) = [i \in 1 .. n |-> CHOOSE p \in P : Cardinality(before(p)) = i - 1]
  BY <1>2 DEF InOrder, PacketCompare, Below
<1> HIDE DEF P, n, before
<1>6. ASSUME NEW i \in 1 .. n
      PROVE  (CHOOSE p \in P : Cardinality(before(p)) = i - 1) =
                PacketOf(r, dst, id, tag, len, i - 1)
  <2>1. i - 1 \in 0 .. n - 1
    BY <1>1
  <2>2. \A p \in P : Cardinality(before(p)) = i - 1
                       => p = PacketOf(r, dst, id, tag, len, i - 1)
    BY <1>3, <1>4
  <2>3. \E p \in P : Cardinality(before(p)) = i - 1
    BY <1>3, <2>1
  <2>4. QED
    BY <2>2, <2>3
<1>7. QED
  BY <1>5, <1>6 DEF P, n, PacketList

(* The data of a message's packets, joined in order, is the message's.     *)
LEMMA PacketsJoined ==
  ASSUME NEW r, NEW dst, NEW id, NEW tag \in Tags, NEW len \in Nat
  PROVE  FlattenSeq([i \in 1 .. NumPackets(tag, len) |->
                       PacketOf(r, dst, id, tag, len, i - 1).data]) = Bytes(0, len)
<1> DEFINE n == NumPackets(tag, len)
           m == MaxDataLen[tag]
           s == [i \in 1 .. n |-> PacketOf(r, dst, id, tag, len, i - 1).data]
           upTo(i) == IF i = n THEN len ELSE i * m
           h == [i \in 1 .. n |-> Bytes(0, upTo(i))]
<1>1. n \in Nat \ {0} /\ m \in Nat \ {0}
  BY NumPacketsType, TagAssumption
<1>2. (n - 1) * m <= len /\ (n - 1) * m \in Nat
  <2>1. (n - 1) * m \in Nat
    BY <1>1
  <2>2. QED
    BY <2>1, FullPackets
<1>3. \A i \in 1 .. n : s[i] = Bytes((i - 1) * m, IF i - 1 = n - 1 THEN len - (i - 1) * m ELSE m)
  BY DEF PacketOf
<1>4. s = [i \in 1 .. n |-> s[i]]
  OBVIOUS
<1>5. \A i \in 1 .. n : i \in Nat /\ i * m \in Nat /\ (i - 1) * m \in Nat
                         /\ i * m = (i - 1) * m + m
  BY <1>1
<1>6. \A i \in 1 .. n : s[i] \in Seq(Nat)
  <2> SUFFICES ASSUME NEW i \in 1 .. n PROVE s[i] \in Seq(Nat)
    OBVIOUS
  <2>1. DEFINE k == IF i - 1 = n - 1 THEN len - (i - 1) * m ELSE m
  <2>2. k \in Int
    BY <1>1, <1>5
  <2>3. s[i] = Bytes((i - 1) * m, k)
    BY <1>3
  <2> HIDE DEF k, s
  <2>4. QED
    BY <1>5, <2>2, <2>3, BytesType
<1>7. Len(s) = n
  <2> HIDE DEF n
  <2>1. s \in Seq(Seq(Nat))
    <3> HIDE DEF s
    <3>1. [i \in 1 .. n |-> s[i]] \in Seq(Seq(Nat))
      BY <1>1, <1>6, IsASeq
    <3>2. QED
      BY <1>4, <3>1
  <2>2. DOMAIN s = 1 .. n
    OBVIOUS
  <2> HIDE DEF s
  <2>3. QED
    BY <1>1, <2>1, <2>2, LenProperties
<1> HIDE DEF s, n, m
<1>8. ASSUME NEW i \in 1 .. n
      PROVE  h[i] = IF i = 1 THEN s[i] ELSE h[i - 1] \o s[i]
  <2> DEFINE k == IF i = n THEN len - (i - 1) * m ELSE m
  <2>1. s[i] = Bytes((i - 1) * m, k)
    BY <1>1, <1>3
  <2>2. k \in Nat /\ (i - 1) * m + k = upTo(i)
    BY <1>1, <1>2, <1>5
  <2> HIDE DEF k
  <2>3. CASE i = 1
    <3>1. (i - 1) * m = 0
      BY <1>1, <2>3
    <3>2. upTo(i) = k
      BY <2>2, <3>1
    <3>3. QED
      BY <2>1, <2>3, <3>1, <3>2
  <2>4. CASE i # 1
    <3>1. i - 1 \in 1 .. n /\ upTo(i - 1) = (i - 1) * m
      BY <1>1, <2>4
    <3>2. h[i - 1] = Bytes(0, (i - 1) * m)
      BY <3>1
    <3>3. \A a \in Nat : Bytes(0, a) \o Bytes(a, k) = Bytes(0, a + k)
      <4> SUFFICES ASSUME NEW a \in Nat
                   PROVE  Bytes(0, a) \o Bytes(a, k) = Bytes(0, a + k)
        OBVIOUS
      <4>1. 0 + a = a
        OBVIOUS
      <4>2. Bytes(0, a) \o Bytes(0 + a, k) = Bytes(0, a + k)
        BY <2>2, BytesConcat
      <4>3. QED
        BY <4>1, <4>2
    <3>4. Bytes(0, (i - 1) * m) \o Bytes((i - 1) * m, k) = Bytes(0, (i - 1) * m + k)
      BY <1>5, <3>3
    <3>5. h[i] = Bytes(0, upTo(i))
      OBVIOUS
    <3> HIDE DEF h, upTo
    <3>6. QED
      BY <2>1, <2>2, <2>4, <3>2, <3>4, <3>5
  <2>5. QED
    BY <2>3, <2>4
<1>9. h = [i \in 1 .. n |-> h[i]]
  OBVIOUS
<1>10. h[n] = Bytes(0, len)
  BY <1>1
<1> HIDE DEF h
<1>11. \A i \in 1 .. n : h[i] = IF i = 1 THEN s[i] ELSE h[i - 1] \o s[i]
  BY <1>8
<1>12. FlattenSeq(s) = h[n]
  <2>1. Joins(h, s, n)
    BY <1>9, <1>11 DEF Joins
  <2>2. QED
    BY <1>1, <1>7, <2>1, FlattenIs
<1>13. QED
  BY <1>10, <1>12 DEF s, n

-----------------------------------------------------------------------------
(* The service.  Every packet belongs to a message that was sent, ids name *)
(* one message each, and the packets on a list never make a message (that  *)
(* is why the packet that completes one has just come out of a receive,    *)
(* hence of a tag that is not cleaned up).                                 *)

SentOnce ==
  /\ sent \subseteq Sendable
  /\ \A m \in sent : m.id < msgID[m.rank]
  /\ \A m, n \in sent : SameMessage(m, n) => m = n

PacketsSent == \A p \in Everywhere : \E m \in sent : p \in Packets(m)

ListIncomplete ==
  \A r \in Ranks : \A p \in recvPackets[r] : ~Complete(p, recvPackets[r])

DeliveredSent == \A r \in Ranks : \A m \in delivered[r] : m \in sent /\ m.dst = r

ServiceInv ==
  /\ KeepInv
  /\ PoolInv
  /\ SentOnce
  /\ PacketsSent
  /\ ListIncomplete
  /\ DeliveredSent

LEMMA SendableType ==
  ASSUME NEW m \in Sendable
  PROVE  /\ m.rank \in Ranks /\ m.dst \in Ranks /\ m.id \in Nat /\ m.tag \in Tags
         /\ Len(m.data) \in Nat
         /\ m = [rank |-> m.rank, dst |-> m.dst, id |-> m.id, tag |-> m.tag,
                 data |-> Bytes(0, Len(m.data))]
<1>1. PICK r \in Ranks :
        m \in {[rank |-> r, dst |-> dst, id |-> i, tag |-> t, data |-> Bytes(0, len)] :
                 dst \in Ranks, i \in 0 .. MaxMsgs[r] - 1, t \in Tags, len \in Lengths}
  BY DEF Sendable
<1>2. PICK dst \in Ranks, i \in 0 .. MaxMsgs[r] - 1, t \in Tags, len \in Lengths :
        m = [rank |-> r, dst |-> dst, id |-> i, tag |-> t, data |-> Bytes(0, len)]
  BY <1>1
<1>3. len \in Nat /\ i \in Nat
  BY BoundAssumption
<1>4. Len(m.data) = len
  BY <1>2, <1>3, BytesLen
<1>5. QED
  BY <1>2, <1>3, <1>4

(* What RecvData has at hand. *)
Known(r, done) == recvPackets[r] \cup done

LEMMA KnownProperties ==
  ASSUME ServiceInv, NEW r \in Ranks, NEW done \in SUBSET recvBuffers[r]
  PROVE  /\ Known(r, done) \subseteq Held(r)
         /\ Known(r, done) \subseteq Everywhere
         /\ IsFiniteSet(Known(r, done))
<1>1. OnceInv
  BY DEF ServiceInv, KeepInv
<1>2. IsFiniteSet(done)
  BY <1>1, FS_Subset DEF OnceInv, TypeInv, FiniteBuffers
<1>3. IsFiniteSet(Known(r, done))
  BY <1>1, <1>2, FS_Union DEF OnceInv, ListFinite, Known
<1>4. Known(r, done) \subseteq Held(r)
  BY DEF Known, Held
<1>5. QED
  BY <1>1, <1>3, <1>4, EverywhereType

(* When as many packets of a message are at hand as it has, they are the   *)
(* packets it was cut into.                                                *)
LEMMA WholePackets ==
  ASSUME ServiceInv, NEW r \in Ranks, NEW done \in SUBSET recvBuffers[r],
         NEW p \in Known(r, done), Complete(p, Known(r, done)),
         NEW m \in sent, p \in Packets(m)
  PROVE  PacketsOf(p, Known(r, done)) = Packets(m)
<1> DEFINE Q == PacketsOf(p, Known(r, done))
<1>1. /\ m.tag \in Tags /\ Len(m.data) \in Nat
  BY SendableType DEF ServiceInv, SentOnce
<1>2. /\ IsFiniteSet(Packets(m))
      /\ Cardinality(Packets(m)) = NumPackets(m.tag, Len(m.data))
  BY <1>1, PrepareForSendCount DEF Packets
<1>3. Cardinality(Q) = NumPackets(m.tag, Len(m.data))
  BY DEF Complete, Packets, PrepareForSend, PacketOf
<1>4. Q \subseteq Packets(m)
  <2> SUFFICES ASSUME NEW q \in Q PROVE q \in Packets(m)
    OBVIOUS
  <2>1. q \in Everywhere /\ SameMessage(p, q)
    BY KnownProperties DEF PacketsOf
  <2>2. PICK n \in sent : q \in Packets(n)
    BY <2>1 DEF ServiceInv, PacketsSent
  <2>3. SameMessage(m, p) /\ SameMessage(n, q)
    BY <2>2, PacketsAddressed
  <2>4. SameMessage(m, n)
    BY <2>1, <2>3 DEF SameMessage
  <2>5. m = n
    BY <2>4 DEF ServiceInv, SentOnce
  <2>6. QED
    BY <2>2, <2>5
<1> HIDE DEF Q
<1>5. Q = Packets(m)
  BY <1>2, <1>3, <1>4, FS_Subset
<1>6. QED
  BY <1>5 DEF Q

(* Messenger.cpp:303-313, 350-393: what RecvData puts together from all    *)
(* the packets of a message is that message, byte for byte.                *)
LEMMA MergeIsMessage ==
  ASSUME ServiceInv, NEW r \in Ranks, NEW done \in SUBSET recvBuffers[r],
         NEW p \in Known(r, done), Complete(p, Known(r, done)),
         NEW m \in sent, p \in Packets(m)
  PROVE  Merge(p, Known(r, done)) = m
<1> DEFINE len == Len(m.data)
           n == NumPackets(m.tag, len)
           part(i) == PacketOf(m.rank, m.dst, m.id, m.tag, len, i - 1)
           parts == InOrder(PacketsOf(p, Known(r, done)))
<1>1. /\ m.tag \in Tags /\ len \in Nat
      /\ m = [rank |-> m.rank, dst |-> m.dst, id |-> m.id, tag |-> m.tag,
              data |-> Bytes(0, len)]
  BY SendableType DEF ServiceInv, SentOnce
<1>2. PacketsOf(p, Known(r, done)) = PrepareForSend(m.rank, m.dst, m.id, m.tag, len)
  BY WholePackets DEF Packets
<1>3. parts = [i \in 1 .. n |-> part(i)]
  <2>1. m.tag \in Tags /\ len \in Nat
    BY <1>1
  <2>2. InOrder(PrepareForSend(m.rank, m.dst, m.id, m.tag, len)) =
          PacketList(m.rank, m.dst, m.id, m.tag, len)
    BY <2>1, PacketsInOrder
  <2>3. QED
    BY <1>2, <2>2 DEF PacketList
<1>4. [i \in DOMAIN parts |-> parts[i].data] = [i \in 1 .. n |-> part(i).data]
  BY <1>3
<1>5. FlattenSeq([i \in 1 .. n |-> part(i).data]) = Bytes(0, len)
  BY <1>1, PacketsJoined
<1>6. p.rank = m.rank /\ p.dst = m.dst /\ p.id = m.id /\ p.tag = m.tag
  BY PacketsAddressed DEF SameMessage
<1>7. Merge(p, Known(r, done)) =
        [rank |-> p.rank, dst |-> p.dst, id |-> p.id, tag |-> p.tag,
         data |-> FlattenSeq([i \in DOMAIN parts |-> parts[i].data])]
  BY DEF Merge
<1> HIDE DEF parts, part, n, len
<1>8. QED
  BY <1>1, <1>4, <1>5, <1>6, <1>7

(* The packet that completes a message has just been taken out of a        *)
(* receive ...                                                             *)
LEMMA CompletedByReceive ==
  ASSUME ServiceInv, NEW r \in Ranks, NEW done \in SUBSET recvBuffers[r],
         NEW p \in Known(r, done), Complete(p, Known(r, done)),
         NEW m \in sent, p \in Packets(m)
  PROVE  \E q \in done : q \in Packets(m)
<1>1. PICK q \in done : SameMessage(p, q)
  <2>1. CASE p \in done
    BY <2>1 DEF SameMessage
  <2>2. CASE p \notin done
    <3>1. p \in recvPackets[r] /\ ~Complete(p, recvPackets[r])
      BY <2>2 DEF Known, ServiceInv, ListIncomplete
    <3>2. PacketsOf(p, recvPackets[r]) # PacketsOf(p, Known(r, done))
      BY <3>1 DEF Complete
    <3>3. QED
      BY <3>2 DEF PacketsOf, Known
  <2>3. QED
    BY <2>1, <2>2
<1>2. q \in Known(r, done)
  BY DEF Known
<1>3. q \in PacketsOf(p, Known(r, done))
  BY <1>1, <1>2 DEF PacketsOf
<1>4. QED
  BY <1>3, WholePackets

(* ... and a tag that is cleaned up has no receives.                       *)
LEMMA WholeIsOpen ==
  ASSUME ServiceInv, NEW r \in Ranks, NEW done \in SUBSET recvBuffers[r],
         NEW p \in Known(r, done), Complete(p, Known(r, done)),
         NEW m \in sent, p \in Packets(m)
  PROVE  m.tag \notin closed[r]
<1>2. PICK q \in done : q \in Packets(m)
  BY CompletedByReceive
<1>3. q.tag = m.tag
  BY <1>2, PacketsAddressed
<1>4. m.tag \in Tags
  BY SendableType DEF ServiceInv, SentOnce
<1>5. q \in Matched(r, m.tag)
  BY <1>3 DEF Matched
<1>6. IsFiniteSet(Matched(r, m.tag)) /\ Cardinality(Matched(r, m.tag)) \in Nat
  BY <1>4, MatchedFinite DEF ServiceInv, KeepInv, OnceInv
<1>7. Cardinality(Matched(r, m.tag)) # 0
  BY <1>5, <1>6, FS_EmptySet
<1>8. posted[r][m.tag] \in Nat
  BY <1>4 DEF ServiceInv, KeepInv, OnceInv, TypeInv, TypeOK
<1>9. posted[r][m.tag] + Cardinality(Matched(r, m.tag)) =
        IF ready[r] /\ m.tag \notin closed[r] THEN NumRecvs[m.tag] ELSE 0
  BY <1>4 DEF ServiceInv, PoolInv, PoolConserved, Matched
<1>10. QED
  BY <1>6, <1>7, <1>8, <1>9

(* What one call of RecvData returns. *)
Batch(r, done) ==
  {Merge(p, Known(r, done)) :
     p \in {q \in Known(r, done) : Complete(q, Known(r, done))}}

(* It is owed to the rank: sent to it, under a tag still open, and not     *)
(* returned before.                                                        *)
LEMMA BatchOwed ==
  ASSUME ServiceInv, NEW r \in Ranks, NEW done \in SUBSET recvBuffers[r]
  PROVE  Batch(r, done) \subseteq Service!Owed(r)
<1> SUFFICES ASSUME NEW d \in Batch(r, done) PROVE d \in Service!Owed(r)
  OBVIOUS
<1>1. PICK p \in Known(r, done) :
        Complete(p, Known(r, done)) /\ d = Merge(p, Known(r, done))
  BY DEF Batch
<1>2. p \in Held(r) /\ p \in Everywhere
  BY KnownProperties
<1>3. PICK m \in sent : p \in Packets(m)
  BY <1>2 DEF ServiceInv, PacketsSent
<1>4. d = m
  BY <1>1, <1>3, MergeIsMessage
<1>5. p.dst = m.dst /\ SameMessage(m, p)
  BY <1>3, PacketsAddressed
<1>6. m.dst = r
  BY <1>2, <1>5 DEF ServiceInv, KeepInv, OnceInv, InOnePlace
<1>7. m.tag \notin closed[r]
  BY <1>1, <1>3, WholeIsOpen
<1>8. m \notin delivered[r]
  BY <1>2, <1>5 DEF ServiceInv, KeepInv, OnceInv, NoneLeft
<1>9. QED
  BY <1>4, <1>6, <1>7, <1>8 DEF Service!Owed

LEMMA ServiceInit == Init => ServiceInv
<1> SUFFICES ASSUME Init PROVE ServiceInv
  OBVIOUS
<1>1. KeepInv /\ PoolInv
  BY KeepInit, PoolInit
<1>2. Everywhere = {}
  BY DEF Init, Everywhere, Held
<1>3. QED
  BY <1>1, <1>2
     DEF Init, ServiceInv, SentOnce, PacketsSent, ListIncomplete, DeliveredSent

LEMMA ServiceSend ==
  ASSUME ServiceInv, NEW r \in Ranks, NEW dst \in Ranks, NEW t \in Tags,
         NEW len \in Lengths, SendData(r, dst, t, len)
  PROVE  SentOnce' /\ PacketsSent' /\ ListIncomplete' /\ DeliveredSent'
         /\ \E m \in Sendable : Service!Send(m)
<1> DEFINE m == [rank |-> r, dst |-> dst, id |-> msgID[r], tag |-> t,
                 data |-> Bytes(0, len)]
           packets == PrepareForSend(r, dst, msgID[r], t, len)
<1>1. /\ network' = network \cup packets
      /\ sent' = sent \cup {m}
      /\ msgID' = [msgID EXCEPT ![r] = @ + 1]
      /\ msgID[r] < MaxMsgs[r]
      /\ UNCHANGED <<recvBuffers, recvPackets, delivered, closed>>
  BY DEF SendData
<1>2. /\ len \in Nat /\ msgID \in [Ranks -> Nat] /\ msgID[r] \in 0 .. MaxMsgs[r] - 1
  <2>1. msgID \in [Ranks -> Nat]
    BY DEF ServiceInv, KeepInv, OnceInv, TypeInv, TypeOK
  <2>2. len \in Nat /\ MaxMsgs[r] \in Nat
    BY BoundAssumption
  <2>3. QED
    BY <1>1, <2>1, <2>2
<1>3. Packets(m) = packets
  BY <1>2, BytesLen DEF Packets
<1>4. m \in Sendable
  BY <1>2 DEF Sendable
<1>5. m.rank = r /\ m.id = msgID[r]
  OBVIOUS
<1> HIDE DEF m, packets
<1>6. \A s \in sent : s.rank \in Ranks /\ s.id \in Nat /\ s.id < msgID[s.rank]
  BY SendableType DEF ServiceInv, SentOnce
<1>7. \A s \in sent : ~(s.rank = m.rank /\ s.id = m.id)
  BY <1>2, <1>5, <1>6
<1>8. SentOnce'
  <2>1. sent' \subseteq Sendable
    BY <1>1, <1>4 DEF ServiceInv, SentOnce
  <2>2. msgID'[r] = msgID[r] + 1 /\ \A x \in Ranks : msgID[x] \in Nat /\ msgID[x] <= msgID'[x]
                                                     /\ msgID'[x] \in Nat
    BY <1>1, <1>2
  <2>3. \A s \in sent' : s.id < msgID'[s.rank]
    <3> SUFFICES ASSUME NEW s \in sent' PROVE s.id < msgID'[s.rank]
      OBVIOUS
    <3>1. CASE s = m
      BY <1>2, <1>5, <2>2, <3>1
    <3>2. CASE s \in sent
      BY <1>6, <2>2, <3>2
    <3>3. QED
      BY <1>1, <3>1, <3>2
  <2>4. \A s, n \in sent' : SameMessage(s, n) => s = n
    BY <1>1, <1>7 DEF ServiceInv, SentOnce, SameMessage
  <2>5. QED
    BY <2>1, <2>3, <2>4 DEF SentOnce, Sendable
<1>9. PacketsSent'
  <2>1. Everywhere' = Everywhere \cup packets
    BY <1>1 DEF Everywhere, Held
  <2>2. \A p \in Everywhere' : \E s \in sent' : p \in Packets(s)
    BY <1>1, <1>3, <2>1 DEF ServiceInv, PacketsSent
  <2>3. QED
    BY <2>2 DEF PacketsSent, Packets
<1>10. ListIncomplete' /\ DeliveredSent'
  BY <1>1 DEF ServiceInv, ListIncomplete, DeliveredSent
<1>11. Service!Send(m)
  BY <1>1, <1>7 DEF Service!Send
<1>12. QED
  BY <1>4, <1>8, <1>9, <1>10, <1>11

LEMMA ServiceReceive ==
  ASSUME ServiceInv, NEW r \in Ranks, NEW done \in SUBSET recvBuffers[r],
         RecvData(r, done)
  PROVE  SentOnce' /\ PacketsSent' /\ ListIncomplete' /\ DeliveredSent'
         /\ (Service!Deliver(r, Batch(r, done)) \/ UNCHANGED Service!vars)
<1> DEFINE known == Known(r, done)
           whole == {p \in known : Complete(p, known)}
<1>1. /\ recvBuffers' = [recvBuffers EXCEPT ![r] = @ \ done]
      /\ recvPackets' = [recvPackets EXCEPT ![r] = known \ whole]
      /\ delivered' = [delivered EXCEPT ![r] = @ \cup Batch(r, done)]
      /\ UNCHANGED <<network, msgID, sent, closed>>
  BY DEF RecvData, Known, Batch
<1>2. /\ recvBuffers \in [Ranks -> SUBSET Packet]
      /\ recvPackets \in [Ranks -> SUBSET Packet]
      /\ delivered = [x \in Ranks |-> delivered[x]]
  BY DEF ServiceInv, KeepInv, OnceInv, TypeInv, TypeOK, DeliveredFunction
<1>3. known \subseteq Held(r) /\ known \subseteq Everywhere
  BY KnownProperties
<1>4. \A p, q \in known : SameMessage(p, q) => p.numPackets = q.numPackets
  BY <1>3 DEF ServiceInv, KeepInv, OnceInv, PacketsAgree
<1> DEFINE K == known \ whole
<1>5. \A p \in K : ~Complete(p, K)
  <2> SUFFICES ASSUME NEW p \in K PROVE ~Complete(p, K)
    OBVIOUS
  <2>1. \A q \in known : SameMessage(p, q) => q \notin whole
    <3> SUFFICES ASSUME NEW q \in known, SameMessage(p, q), q \in whole PROVE FALSE
      OBVIOUS
    <3>1. PacketsOf(p, known) = PacketsOf(q, known)
      BY DEF PacketsOf, SameMessage
    <3>2. Complete(p, known)
      BY <1>4, <3>1 DEF Complete
    <3>3. QED
      BY <3>2
  <2>2. PacketsOf(p, K) = PacketsOf(p, known)
    BY <2>1 DEF PacketsOf
  <2>3. ~Complete(p, known)
    OBVIOUS
  <2>4. QED
    BY <2>2, <2>3 DEF Complete
<1>6. K \subseteq known
  OBVIOUS
<1> HIDE DEF K, known, whole
<1>7. ListIncomplete'
  <2>1. \A x \in Ranks : recvPackets'[x] = IF x = r THEN K ELSE recvPackets[x]
    BY <1>1, <1>2 DEF K
  <2>2. QED
    BY <1>5, <2>1 DEF ServiceInv, ListIncomplete
<1>8. PacketsSent'
  <2>1. \A x \in Ranks : Held(x)' \subseteq Held(x)
    BY <1>1, <1>2, <1>3, <1>6 DEF Held, K
  <2>2. Everywhere' \subseteq Everywhere
    BY <1>1, <2>1 DEF Everywhere
  <2>3. QED
    BY <1>1, <2>2 DEF ServiceInv, PacketsSent
<1>9. SentOnce'
  BY <1>1 DEF ServiceInv, SentOnce
<1>10. Batch(r, done) \subseteq Service!Owed(r)
  BY BatchOwed
<1>11. DeliveredSent'
  <2>1. \A d \in Batch(r, done) : d \in sent /\ d.dst = r
    BY <1>10 DEF Service!Owed
  <2>2. \A x \in Ranks : delivered'[x] = IF x = r THEN delivered[x] \cup Batch(r, done)
                                                    ELSE delivered[x]
    BY <1>1, <1>2
  <2>3. QED
    BY <1>1, <2>1, <2>2 DEF ServiceInv, DeliveredSent
<1>12. Service!Deliver(r, Batch(r, done)) \/ UNCHANGED Service!vars
  <2>1. CASE Batch(r, done) = {}
    <3>1. delivered' = delivered
      BY <1>1, <1>2, <2>1
    <3>2. QED
      BY <1>1, <3>1 DEF Service!vars
  <2>2. CASE Batch(r, done) # {}
    BY <1>1, <1>10, <2>2 DEF Service!Deliver
  <2>3. QED
    BY <2>1, <2>2
<1>13. QED
  BY <1>7, <1>8, <1>9, <1>11, <1>12

(* Steps that leave the lists, the messages and what is returned alone, and *)
(* only move or drop packets.                                              *)
LEMMA ServiceQuiet ==
  ASSUME ServiceInv, Everywhere' \subseteq Everywhere,
         UNCHANGED <<msgID, recvPackets, sent, delivered>>
  PROVE  SentOnce' /\ PacketsSent' /\ ListIncomplete' /\ DeliveredSent'
<1>1. SentOnce' /\ ListIncomplete' /\ DeliveredSent'
  BY DEF ServiceInv, SentOnce, ListIncomplete, DeliveredSent
<1>2. PacketsSent'
  BY DEF ServiceInv, PacketsSent
<1>3. QED
  BY <1>1, <1>2

(* Every step keeps the invariant and is a step of the service or none.    *)
LEMMA ServiceStep ==
  ASSUME ServiceInv, [Next]_vars
  PROVE  ServiceInv' /\ [Service!Next]_Service!vars
<1>1. KeepInv' /\ PoolInv'
  BY KeepNext, PoolNext DEF ServiceInv
<1> DEFINE Goal == /\ SentOnce' /\ PacketsSent' /\ ListIncomplete' /\ DeliveredSent'
                   /\ [Service!Next]_Service!vars
<1>2. ASSUME UNCHANGED <<msgID, network, recvBuffers, recvPackets, sent, delivered, closed>>
      PROVE  Goal
  <2>1. Everywhere' = Everywhere
    BY <1>2 DEF Everywhere, Held
  <2>2. UNCHANGED Service!vars
    BY <1>2 DEF Service!vars
  <2>3. QED
    BY <1>2, <2>1, <2>2, ServiceQuiet
<1>3. ASSUME NEW r \in Ranks, NEW t \in Tags, RegisterTag(r, t) PROVE Goal
  BY <1>2, <1>3 DEF RegisterTag
<1>4. ASSUME NEW r \in Ranks, InitializeBuffers(r) PROVE Goal
  BY <1>2, <1>4 DEF InitializeBuffers
<1>5. ASSUME NEW r \in Ranks, NEW dst \in Ranks, NEW t \in Tags, NEW len \in Lengths,
             SendData(r, dst, t, len)
      PROVE  Goal
  BY <1>5, ServiceSend DEF Service!Next
<1>6. ASSUME NEW p \in network, MatchReceive(p) PROVE Goal
  <2>1. /\ network' = network \ {p}
        /\ recvBuffers' = [recvBuffers EXCEPT ![p.dst] = @ \cup {p}]
        /\ UNCHANGED <<msgID, recvPackets, sent, delivered, closed>>
    BY <1>6 DEF MatchReceive
  <2>2. recvBuffers \in [Ranks -> SUBSET Packet]
    BY DEF ServiceInv, KeepInv, OnceInv, TypeInv, TypeOK
  <2>3. \A x \in Ranks : Held(x)' \subseteq Held(x) \cup {p}
    BY <2>1, <2>2 DEF Held
  <2>4. Everywhere' \subseteq Everywhere
    BY <2>1, <2>3 DEF Everywhere
  <2>5. UNCHANGED Service!vars
    BY <2>1 DEF Service!vars
  <2>6. QED
    BY <2>1, <2>4, <2>5, ServiceQuiet
<1>7. ASSUME NEW r \in Ranks, NEW done \in SUBSET recvBuffers[r], RecvData(r, done)
      PROVE  Goal
  <2>1. Batch(r, done) \in SUBSET Service!Owed(r)
    BY BatchOwed
  <2>2. SentOnce' /\ PacketsSent' /\ ListIncomplete' /\ DeliveredSent'
        /\ (Service!Deliver(r, Batch(r, done)) \/ UNCHANGED Service!vars)
    BY <1>7, ServiceReceive
  <2>3. QED
    BY <2>1, <2>2 DEF Service!Next
<1>8. ASSUME NEW r \in Ranks, NEW done, CheckPendingSendRequests(r, done) PROVE Goal
  BY <1>2, <1>8 DEF CheckPendingSendRequests
<1>9. ASSUME NEW r \in Ranks, NEW tags \in SUBSET Tags, CleanupRequests(r, tags)
      PROVE  Goal
  <2>1. /\ recvBuffers' = [recvBuffers EXCEPT ![r] = {p \in @ : p.tag \notin tags}]
        /\ closed' = [closed EXCEPT ![r] = @ \cup tags]
        /\ UNCHANGED <<msgID, network, recvPackets, sent, delivered>>
    BY <1>9 DEF CleanupRequests
  <2>2. recvBuffers \in [Ranks -> SUBSET Packet]
    BY DEF ServiceInv, KeepInv, OnceInv, TypeInv, TypeOK
  <2>3. \A x \in Ranks : Held(x)' \subseteq Held(x)
    BY <2>1, <2>2 DEF Held
  <2>4. Everywhere' \subseteq Everywhere
    BY <2>1, <2>3 DEF Everywhere
  <2>5. Service!Close(r, tags)
    BY <2>1 DEF Service!Close
  <2>6. QED
    BY <2>1, <2>4, <2>5, ServiceQuiet DEF Service!Next
<1>10. ASSUME UNCHANGED vars PROVE Goal
  BY <1>2, <1>10 DEF vars
<1>11. Goal
  <2> HIDE DEF Goal
  <2>1. QED
    BY <1>3, <1>4, <1>5, <1>6, <1>7, <1>8, <1>9, <1>10 DEF Next
<1>12. QED
  BY <1>1, <1>11 DEF ServiceInv

LEMMA ServiceInvariant == Spec => []ServiceInv
<1>1. ServiceInv /\ [Next]_vars => ServiceInv'
  BY ServiceStep
<1>2. QED
  BY <1>1, ServiceInit, PTL DEF Spec

(* Messenger.cpp:189-214, 303-393: whatever the sizes, the polling and the  *)
(* order in which receives complete, a message that is neither returned nor *)
(* given up has all its packets between its sender and the reassembly list  *)
(* of its receiver, each of them exactly once.                              *)
THEOREM NothingIsLost == Spec => []NothingLost
<1>1. ASSUME ServiceInv PROVE NothingLost
  <2> SUFFICES ASSUME NEW m \in sent, m \notin delivered[m.dst], m.tag \notin closed[m.dst]
               PROVE  \A p \in Packets(m) :
                        /\ p \in network \cup Held(m.dst)
                        /\ ~(p \in network /\ p \in Held(m.dst))
                        /\ ~(p \in recvBuffers[m.dst] /\ p \in recvPackets[m.dst])
    BY DEF NothingLost, Packets
  <2>1. m.dst \in Ranks
    BY <1>1 DEF ServiceInv, KeepInv, SentTypes
  <2>2. ~Returned(m)
    <3> SUFFICES ASSUME NEW d \in delivered[m.dst], SameMessage(m, d) PROVE FALSE
      BY DEF Returned
    <3>1. d \in sent
      BY <1>1, <2>1 DEF ServiceInv, DeliveredSent
    <3>2. d = m
      BY <1>1, <3>1 DEF ServiceInv, SentOnce
    <3>3. QED
      BY <3>2
  <2>3. Packets(m) \subseteq network \cup Held(m.dst)
    BY <1>1, <2>2 DEF ServiceInv, KeepInv, AllSomewhere
  <2>4. network \cap Held(m.dst) = {} /\ recvBuffers[m.dst] \cap recvPackets[m.dst] = {}
    BY <1>1, <2>1 DEF ServiceInv, KeepInv, OnceInv, InOnePlace
  <2>5. QED
    BY <2>3, <2>4
<1>2. QED
  BY <1>1, ServiceInvariant, PTL

(* The messenger implements MessageService: sending, returning the messages *)
(* RecvData has put together, and cleaning up tags are the service's steps, *)
(* and everything else, packets and receives, is hidden (Messenger.cpp:     *)
(* 189-214, 303-393, 60-98).                                                *)
THEOREM MessengerIsService == Spec => ServiceSpec
<1>1. Init => Service!Init
  BY DEF Init, Service!Init
<1>2. ServiceInv /\ [Next]_vars => [Service!Next]_Service!vars
  BY ServiceStep
<1>3. QED
  BY <1>1, <1>2, ServiceInvariant, PTL DEF Spec, ServiceSpec, Service!Spec

-----------------------------------------------------------------------------
(* A client of the messenger.                                              *)

(* A vector still holds what it was filled with, or has been sent. *)
Vectors ==
  /\ ray_map \in [Ranks -> [Ranks -> SUBSET Ray]]
  /\ \A r, dst \in Ranks : ray_map[r][dst] \in {InitialRays[r][dst], {}}
  /\ nextDst \in [Ranks -> SUBSET Ranks]
  /\ got \in [Ranks -> SUBSET Ray]

(* What is known of the content of ray messages: they have been sent.      *)
Contents ==
  /\ \A c \in content :
       /\ c.rays \subseteq Ray
       /\ \E m \in sent : SameMessage(c, m)

LEMMA VectorsInit == RayInit => Vectors /\ Contents
BY RayAssumption DEF RayInit, Vectors, Contents

(* Each step is one of the messenger, with a length it knows, or none. *)
LEMMA StepOfMessenger ==
  ASSUME Vectors, [RayNext]_allVars
  PROVE  [Next]_vars
<1>1. ASSUME NEW r \in Ranks, RegisterMessages(r) PROVE Next
  BY <1>1 DEF RegisterMessages, Next
<1>2. ASSUME NEW r \in Ranks, NEW dst \in Ranks, SendRays(r, dst) PROVE Next
  <2>1. ray_map[r][dst] = InitialRays[r][dst]
    BY <1>2 DEF SendRays, Vectors
  <2>2. RayBytes * Cardinality(ray_map[r][dst]) \in Lengths /\ RAY_TAG \in Tags
    BY <2>1, RayAssumption
  <2>3. SendData(r, dst, RAY_TAG, RayBytes * Cardinality(ray_map[r][dst]))
    BY <1>2 DEF SendRays
  <2>4. QED
    BY <2>2, <2>3 DEF Next
<1>3. ASSUME NEW r \in Ranks, SendMsg(r) PROVE Next
  <2>1. nextDst[r] \subseteq Ranks /\ nextDst[r] # {}
    BY <1>3 DEF SendMsg, Vectors
  <2>2. \E x \in nextDst[r] : \A y \in nextDst[r] : x <= y
    BY <2>1, LeastNat, RayAssumption
  <2>3. Min(nextDst[r]) \in Ranks
    BY <2>1, <2>2 DEF Min
  <2>4. MsgLen \in Lengths /\ MESSAGE_TAG \in Tags
    BY RayAssumption
  <2>5. SendData(r, Min(nextDst[r]), MESSAGE_TAG, MsgLen)
    BY <1>3 DEF SendMsg
  <2>6. QED
    BY <2>3, <2>4, <2>5 DEF Next
<1>4. ASSUME NEW r \in Ranks, SendAllMsg(r) PROVE UNCHANGED vars
  BY <1>4 DEF SendAllMsg
<1>5. ASSUME NEW r \in Ranks, NEW done \in SUBSET recvBuffers[r], RecvAny(r, done)
      PROVE  Next
  BY <1>5 DEF RecvAny, Next
<1>6. ASSUME NEW r \in Ranks, Destroy(r) PROVE Next
  BY <1>6 DEF Destroy, Next
<1>7. ASSUME NEW p \in network, Progress(p) PROVE Next
  BY <1>7 DEF Progress, Next
<1>8. ASSUME UNCHANGED allVars PROVE UNCHANGED vars
  BY <1>8 DEF allVars
<1>9. QED
  BY <1>1, <1>2, <1>3, <1>4, <1>5, <1>6, <1>7, <1>8 DEF RayNext

LEMMA VectorsSend ==
  ASSUME Vectors, NEW r \in Ranks, NEW dst \in Ranks, SendRays(r, dst)
  PROVE  Vectors'
<1>1. /\ ray_map' = [ray_map EXCEPT ![r][dst] = {}]
      /\ UNCHANGED <<nextDst, got>>
  BY DEF SendRays
<1>2. ray_map' \in [Ranks -> [Ranks -> SUBSET Ray]]
  BY <1>1 DEF Vectors
<1>3. \A x, y \in Ranks : ray_map'[x][y] = IF x = r /\ y = dst THEN {} ELSE ray_map[x][y]
  BY <1>1 DEF Vectors
<1>4. QED
  BY <1>1, <1>2, <1>3 DEF Vectors

LEMMA ContentsSend ==
  ASSUME Vectors, Contents, NEW r \in Ranks, NEW dst \in Ranks, SendRays(r, dst)
  PROVE  Contents'
<1> DEFINE c == [rank |-> r, id |-> msgID[r], rays |-> ray_map[r][dst]]
           m == [rank |-> r, dst |-> dst, id |-> msgID[r], tag |-> RAY_TAG,
                 data |-> Bytes(0, RayBytes * Cardinality(ray_map[r][dst]))]
<1>1. content' = content \cup {c} /\ sent' = sent \cup {m}
  BY DEF SendRays, SendData
<1>2. c.rays \subseteq Ray /\ SameMessage(c, m)
  BY DEF Vectors, SameMessage
<1> HIDE DEF c, m
<1>3. QED
  BY <1>1, <1>2 DEF Contents

LEMMA RaysInType ==
  ASSUME Contents, NEW m
  PROVE  RaysIn(m) \subseteq Ray
BY DEF Contents, RaysIn

LEMMA VectorsNext ==
  ASSUME Vectors, Contents, [RayNext]_allVars
  PROVE  Vectors' /\ Contents'
<1>1. ASSUME UNCHANGED <<ray_map, nextDst, got>> PROVE Vectors'
  BY <1>1 DEF Vectors
<1>2. ASSUME UNCHANGED content, sent \subseteq sent' PROVE Contents'
  BY <1>2 DEF Contents
<1>3. ASSUME NEW r \in Ranks, RegisterMessages(r) PROVE Vectors' /\ Contents'
  <2>1. UNCHANGED sent
    BY <1>3 DEF RegisterMessages, RegisterTag, InitializeBuffers
  <2>2. QED
    BY <1>1, <1>2, <1>3, <2>1 DEF RegisterMessages, rayVars
<1>4. ASSUME NEW r \in Ranks, NEW dst \in Ranks, SendRays(r, dst)
      PROVE  Vectors' /\ Contents'
  BY <1>4, VectorsSend, ContentsSend
<1>5. ASSUME NEW r \in Ranks, SendAllMsg(r) PROVE Vectors' /\ Contents'
  <2>1. UNCHANGED <<sent, content, ray_map, got>> /\ nextDst' = [nextDst EXCEPT ![r] = Ranks \ {r}]
    BY <1>5 DEF SendAllMsg, vars
  <2>2. QED
    BY <1>2, <2>1 DEF Vectors
<1>6. ASSUME NEW r \in Ranks, SendMsg(r) PROVE Vectors' /\ Contents'
  <2>1. /\ UNCHANGED <<content, ray_map, got>>
        /\ nextDst' = [nextDst EXCEPT ![r] = @ \ {Min(nextDst[r])}]
        /\ SendData(r, Min(nextDst[r]), MESSAGE_TAG, MsgLen)
    BY <1>6 DEF SendMsg
  <2>2. sent \subseteq sent'
    BY <2>1 DEF SendData
  <2>3. QED
    BY <1>2, <2>1, <2>2 DEF Vectors
<1>7. ASSUME NEW r \in Ranks, NEW done \in SUBSET recvBuffers[r], RecvAny(r, done)
      PROVE  Vectors' /\ Contents'
  <2>1. UNCHANGED <<sent, content, ray_map, nextDst>>
    BY <1>7 DEF RecvAny, RecvData
  <2>2. UNCHANGED got \/ \E last : got' = [got EXCEPT ![r] = @ \cup RaysIn(last)]
    BY <1>7 DEF RecvAny
  <2>3. got' \in [Ranks -> SUBSET Ray]
    BY <2>2, RaysInType DEF Vectors
  <2>4. QED
    BY <1>2, <2>1, <2>3 DEF Vectors
<1>8. ASSUME NEW r \in Ranks, Destroy(r) PROVE Vectors' /\ Contents'
  BY <1>1, <1>2, <1>8 DEF Destroy, CleanupRequests, rayVars
<1>9. ASSUME NEW p \in network, Progress(p) PROVE Vectors' /\ Contents'
  BY <1>1, <1>2, <1>9 DEF Progress, MatchReceive, rayVars
<1>10. ASSUME UNCHANGED allVars PROVE Vectors' /\ Contents'
  BY <1>1, <1>2, <1>10 DEF allVars, vars, rayVars
<1>11. QED
  BY <1>3, <1>4, <1>5, <1>6, <1>7, <1>8, <1>9, <1>10 DEF RayNext

(* RayMessenger.cpp:40-73, 121-187: everything the rays layer does to the   *)
(* messenger is what a client may do, so that every property of Messenger's *)
(* specification is one of RayMessenger's: no message comes twice or is     *)
(* altered, none is lost, the pools of receives keep their size.           *)
THEOREM ClientOfMessenger == RaySpec => Spec
<1> DEFINE I == Vectors /\ Contents
<1>1. RayInit => I /\ Init
  BY VectorsInit DEF RayInit
<1>2. I /\ [RayNext]_allVars => I' /\ [Next]_vars
  BY VectorsNext, StepOfMessenger
<1> HIDE DEF I
<1>3. QED
  BY <1>1, <1>2, PTL DEF RaySpec, Spec

-----------------------------------------------------------------------------
(* One receive for rays: a call of RecvAny finds at most one ray message   *)
(* whole, the vector it fills is not filled again.                         *)

OneRayReceive == NumRecvs[RAY_TAG] = 1

LEMMA OneRayMessage ==
  ASSUME OneRayReceive, ServiceInv, NEW r \in Ranks, NEW done \in SUBSET recvBuffers[r],
         NEW m \in Batch(r, done), NEW n \in Batch(r, done),
         m.tag = RAY_TAG, n.tag = RAY_TAG
  PROVE  m = n
<1>1. ASSUME NEW k \in Batch(r, done), k.tag = RAY_TAG
      PROVE  k \in sent /\ \E q \in done : SameMessage(k, q) /\ q.tag = RAY_TAG
  <2>1. PICK p \in Known(r, done) :
          Complete(p, Known(r, done)) /\ k = Merge(p, Known(r, done))
    BY DEF Batch
  <2>2. p \in Everywhere
    BY KnownProperties
  <2>3. PICK s \in sent : p \in Packets(s)
    BY <2>2 DEF ServiceInv, PacketsSent
  <2>4. k = s
    BY <2>1, <2>3, MergeIsMessage
  <2>5. PICK q \in done : q \in Packets(s)
    BY <2>1, <2>3, CompletedByReceive
  <2>6. SameMessage(s, q) /\ q.tag = s.tag
    BY <2>5, PacketsAddressed
  <2>7. QED
    BY <1>1, <2>3, <2>4, <2>6
<1>2. PICK p \in done : SameMessage(m, p) /\ p.tag = RAY_TAG
  BY <1>1
<1>3. PICK q \in done : SameMessage(n, q) /\ q.tag = RAY_TAG
  BY <1>1
<1>4. p = q
  <2> DEFINE M == Matched(r, RAY_TAG)
  <2>1. RAY_TAG \in Tags
    BY RayAssumption
  <2>2. p \in M /\ q \in M
    BY <1>2, <1>3 DEF Matched
  <2>3. IsFiniteSet(M) /\ Cardinality(M) \in Nat
    BY <2>1, MatchedFinite DEF ServiceInv, KeepInv, OnceInv
  <2>4. posted[r][RAY_TAG] \in Nat
    BY <2>1 DEF ServiceInv, KeepInv, OnceInv, TypeInv, TypeOK
  <2>5. posted[r][RAY_TAG] + Cardinality(M) =
          IF ready[r] /\ RAY_TAG \notin closed[r] THEN NumRecvs[RAY_TAG] ELSE 0
    BY <2>1 DEF ServiceInv, PoolInv, PoolConserved, Matched
  <2> HIDE DEF M
  <2>6. Cardinality(M) <= 1
    BY <2>3, <2>4, <2>5 DEF OneRayReceive
  <2>7. {p, q} \in SUBSET M
    BY <2>2
  <2>8. Cardinality({p, q}) <= Cardinality(M)
    BY <2>3, <2>7, FS_Subset
  <2>9. p # q => Cardinality({p, q}) = 2
    <3>1. IsFiniteSet({p}) /\ Cardinality({p}) = 1
      BY FS_Singleton
    <3>2. {p, q} = {p} \cup {q}
      OBVIOUS
    <3>3. p # q => q \notin {p}
      OBVIOUS
    <3>4. QED
      BY <3>1, <3>2, <3>3, FS_AddElement
  <2>10. QED
    BY <2>3, <2>6, <2>8, <2>9
<1>5. SameMessage(m, n)
  BY <1>2, <1>3, <1>4 DEF SameMessage
<1>6. QED
  BY <1>1, <1>5 DEF ServiceInv, SentOnce

-----------------------------------------------------------------------------
(* Where the rays are.                                                     *)

OnePlace ==
  \A r, dst \in Ranks : \A ray \in InitialRays[r][dst] : \E x : Places(ray) = {x}

RayInv == ServiceInv /\ Vectors /\ Contents /\ OnePlace

LEMMA RayInvInit == RayInit => RayInv
<1> SUFFICES ASSUME RayInit PROVE RayInv
  OBVIOUS
<1>1. ServiceInv /\ Vectors /\ Contents
  BY ServiceInit, VectorsInit DEF RayInit
<1>2. ASSUME NEW r \in Ranks, NEW dst \in Ranks, NEW ray \in InitialRays[r][dst]
      PROVE  Places(ray) = {<<"waiting", r, dst>>}
  <2>1. ray_map = InitialRays /\ sent = {} /\ got = [q \in Ranks |-> {}]
    BY DEF RayInit, Init
  <2>2. \A a, b \in Ranks : ray \in InitialRays[a][b] => a = r /\ b = dst
    <3> SUFFICES ASSUME NEW a \in Ranks, NEW b \in Ranks, ray \in InitialRays[a][b],
                        <<a, b>> # <<r, dst>>
                 PROVE  FALSE
      OBVIOUS
    <3> DEFINE x == <<a, b>>
               y == <<r, dst>>
    <3>1. /\ x \in Ranks \X Ranks /\ y \in Ranks \X Ranks /\ x # y
          /\ x[1] = a /\ x[2] = b /\ y[1] = r /\ y[2] = dst
      OBVIOUS
    <3> HIDE DEF x, y
    <3>2. InitialRays[x[1]][x[2]] \cap InitialRays[y[1]][y[2]] = {}
      BY <3>1, RayAssumption
    <3>3. QED
      BY <3>1, <3>2
  <2>3. Waiting(ray) = {<<"waiting", r, dst>>}
    BY <2>1, <2>2 DEF Waiting
  <2>4. Travelling(ray) = {}
    BY <2>1 DEF Travelling, Carriers
  <2>5. Handed(ray) = {}
    BY <2>1 DEF Handed
  <2>6. QED
    BY <2>3, <2>4, <2>5 DEF Places
<1>3. QED
  BY <1>1, <1>2 DEF RayInv, OnePlace

(* SendRays makes a message of the vector, which nobody else carries.      *)
LEMMA NewCarrier ==
  ASSUME RayInv, NEW r \in Ranks, NEW dst \in Ranks, SendRays(r, dst)
  PROVE  \E m : /\ m \notin sent /\ sent' = sent \cup {m}
                /\ m.rank = r /\ m.dst = dst /\ m.tag = RAY_TAG
                /\ m \notin delivered[dst] /\ delivered' = delivered
                /\ RaysIn(m)' = ray_map[r][dst]
                /\ \A n \in sent : RaysIn(n)' = RaysIn(n)
<1>1. PICK c, m :
        /\ content' = content \cup {c} /\ sent' = sent \cup {m} /\ delivered' = delivered
        /\ c = [rank |-> r, id |-> msgID[r], rays |-> ray_map[r][dst]]
        /\ m = [rank |-> r, dst |-> dst, id |-> msgID[r], tag |-> RAY_TAG,
                data |-> Bytes(0, RayBytes * Cardinality(ray_map[r][dst]))]
  BY DEF SendRays, SendData
<1>2. /\ c.rank = r /\ c.id = msgID[r] /\ c.rays = ray_map[r][dst]
      /\ m.rank = r /\ m.id = msgID[r] /\ m.dst = dst /\ m.tag = RAY_TAG
  BY <1>1
<1>3. \A n \in sent : ~(n.rank = r /\ n.id = msgID[r])
  <2>1. \A n \in sent : n.id < msgID[n.rank] /\ n.id \in Nat
    BY SendableType DEF RayInv, ServiceInv, SentOnce
  <2>2. QED
    BY <2>1
<1>4. m \notin sent
  BY <1>2, <1>3
<1>5. m \notin delivered[dst]
  BY <1>4 DEF RayInv, ServiceInv, DeliveredSent
<1>6. \A d \in content : ~SameMessage(d, m)
  BY <1>2, <1>3 DEF RayInv, Contents, SameMessage
<1>7. RaysIn(m)' = ray_map[r][dst]
  <2>1. {d \in content' : SameMessage(d, m)} = {c}
    BY <1>1, <1>2, <1>6 DEF SameMessage
  <2>2. UNION {d.rays : d \in {c}} = ray_map[r][dst]
    BY <1>2
  <2>3. RaysIn(m)' = UNION {d.rays : d \in {e \in content' : SameMessage(e, m)}}
    BY DEF RaysIn, SameMessage
  <2>4. QED
    BY <2>1, <2>2, <2>3
<1>8. ASSUME NEW n \in sent PROVE RaysIn(n)' = RaysIn(n)
  <2>1. {d \in content' : SameMessage(d, n)} = {d \in content : SameMessage(d, n)}
    BY <1>1, <1>2, <1>3 DEF SameMessage
  <2>2. RaysIn(n)' = UNION {d.rays : d \in {e \in content' : SameMessage(e, n)}}
    BY DEF RaysIn, SameMessage
  <2>3. QED
    BY <2>1, <2>2 DEF RaysIn
<1>9. QED
  BY <1>1, <1>2, <1>4, <1>5, <1>7, <1>8

LEMMA OnePlaceSend ==
  ASSUME RayInv, NEW r \in Ranks, NEW dst \in Ranks, SendRays(r, dst)
  PROVE  OnePlace'
<1>1. PICK m : /\ m \notin sent /\ sent' = sent \cup {m}
               /\ m.rank = r /\ m.dst = dst /\ m.tag = RAY_TAG
               /\ m \notin delivered[dst] /\ delivered' = delivered
               /\ RaysIn(m)' = ray_map[r][dst]
               /\ \A n \in sent : RaysIn(n)' = RaysIn(n)
  BY NewCarrier
<1>2. /\ ray_map' = [ray_map EXCEPT ![r][dst] = {}]
      /\ got' = got
  BY DEF SendRays
<1>3. \A a, b \in Ranks : ray_map'[a][b] = IF a = r /\ b = dst THEN {} ELSE ray_map[a][b]
  BY <1>2 DEF RayInv, Vectors
<1>4. ASSUME NEW ray
      PROVE  /\ Handed(ray)' = Handed(ray)
             /\ Waiting(ray)' = Waiting(ray) \ {<<"waiting", r, dst>>}
             /\ Carriers(ray)' = IF ray \in ray_map[r][dst] THEN Carriers(ray) \cup {m}
                                 ELSE Carriers(ray)
  <2>1. Handed(ray)' = Handed(ray)
    BY <1>2 DEF Handed
  <2>2. Waiting(ray)' = Waiting(ray) \ {<<"waiting", r, dst>>}
    BY <1>3 DEF Waiting
  <2>3. Carriers(ray)' = {n \in sent' : n.tag = RAY_TAG /\ ray \in RaysIn(n)'
                                        /\ n \notin delivered'[n.dst]}
    BY DEF Carriers
  <2>4. QED
    BY <1>1, <2>1, <2>2, <2>3 DEF Carriers
<1>5. ASSUME NEW a \in Ranks, NEW b \in Ranks, NEW ray \in InitialRays[a][b]
      PROVE  \E x : Places(ray)' = {x}
  <2>1. PICK x : Places(ray) = {x}
    BY DEF RayInv, OnePlace
  <2>2. CASE ray \in ray_map[r][dst]
    <3>1. <<"waiting", r, dst>> \in Waiting(ray)
      BY <2>2 DEF Waiting
    <3>2. Waiting(ray) = {<<"waiting", r, dst>>} /\ x = <<"waiting", r, dst>>
      BY <2>1, <3>1 DEF Places
    <3>3. Carriers(ray) = {}
      <4> SUFFICES ASSUME NEW n \in Carriers(ray) PROVE FALSE
        OBVIOUS
      <4>1. <<"moving", n.rank, n.id>> \in Places(ray)
        BY DEF Travelling, Places
      <4>2. <<"moving", n.rank, n.id>> = <<"waiting", r, dst>>
        BY <2>1, <3>2, <4>1
      <4>3. QED
        BY <4>2
    <3>4. Handed(ray) = {}
      <4> SUFFICES ASSUME NEW q \in Handed(ray) PROVE FALSE
        OBVIOUS
      <4>1. q = <<"waiting", r, dst>>
        BY <2>1, <3>2 DEF Places
      <4>2. q[1] = "got"
        BY DEF Handed
      <4>3. QED
        BY <4>1, <4>2
    <3>5. Travelling(ray)' = {<<"moving", m.rank, m.id>>}
      <4>1. Carriers(ray)' = {m}
        BY <1>4, <2>2, <3>3
      <4>2. Travelling(ray)' = {<<"moving", n.rank, n.id>> : n \in Carriers(ray)'}
        BY DEF Travelling
      <4>3. QED
        BY <4>1, <4>2
    <3>6. Places(ray)' = Waiting(ray)' \cup Travelling(ray)' \cup Handed(ray)'
      BY DEF Places
    <3>7. Places(ray)' = {<<"moving", m.rank, m.id>>}
      BY <1>4, <3>2, <3>4, <3>5, <3>6
    <3>8. QED
      BY <3>7
  <2>3. CASE ray \notin ray_map[r][dst]
    <3>1. <<"waiting", r, dst>> \notin Waiting(ray)
      BY <2>3 DEF Waiting
    <3>2. Travelling(ray)' = Travelling(ray)
      <4>1. Travelling(ray)' = {<<"moving", n.rank, n.id>> : n \in Carriers(ray)'}
        BY DEF Travelling
      <4>2. QED
        BY <1>4, <2>3, <4>1 DEF Travelling
    <3>3. Places(ray)' = Waiting(ray)' \cup Travelling(ray)' \cup Handed(ray)'
      BY DEF Places
    <3>4. Places(ray)' = Places(ray)
      BY <1>4, <3>1, <3>2, <3>3 DEF Places
    <3>5. QED
      BY <2>1, <3>4
  <2>4. QED
    BY <2>2, <2>3
<1>6. QED
  BY <1>5 DEF OnePlace

(* RecvAny takes the rays of the one message that has arrived out of it.   *)
LEMMA OnePlaceReceive ==
  ASSUME OneRayReceive, RayInv, NEW r \in Ranks, NEW done \in SUBSET recvBuffers[r],
         RecvAny(r, done)
  PROVE  OnePlace'
<1>1. /\ RecvData(r, done)
      /\ UNCHANGED <<ray_map, nextDst, content>>
  BY DEF RecvAny
<1>2. /\ delivered' = [delivered EXCEPT ![r] = @ \cup Batch(r, done)]
      /\ UNCHANGED sent
  BY <1>1 DEF RecvData, Batch, Known
<1>3. delivered = [x \in Ranks |-> delivered[x]]
  BY DEF RayInv, ServiceInv, KeepInv, OnceInv, TypeInv, DeliveredFunction
<1>4. \A m \in Batch(r, done) : m \in sent /\ m.dst = r /\ m \notin delivered[r]
  BY BatchOwed DEF RayInv, Service!Owed
<1>5. \A x \in Ranks : delivered'[x] = IF x = r THEN delivered[r] \cup Batch(r, done)
                                                ELSE delivered[x]
  BY <1>2, <1>3
<1>6. PICK arrived : arrived = {m \in Batch(r, done) : m.tag = RAY_TAG}
  OBVIOUS
<1>7. {m \in delivered'[r] \ delivered[r] : m.tag = RAY_TAG} = arrived
  BY <1>4, <1>5, <1>6
<1>8. \A m, n \in arrived : m = n
  BY <1>6, OneRayMessage DEF RayInv
<1>9. IF arrived = {} THEN UNCHANGED got
      ELSE \E last \in arrived : got' = [got EXCEPT ![r] = @ \cup RaysIn(last)]
  BY <1>7 DEF RecvAny
<1>10. \A m \in sent : m.dst \in Ranks /\ m.rank \in Ranks /\ m.id \in Nat
  BY SendableType DEF RayInv, ServiceInv, SentOnce
<1>11. ASSUME NEW ray
       PROVE  /\ Waiting(ray)' = Waiting(ray)
              /\ Carriers(ray)' = Carriers(ray) \ arrived
  <2>1. Waiting(ray)' = Waiting(ray)
    BY <1>1 DEF Waiting
  <2>2. \A m \in sent : RaysIn(m)' = RaysIn(m)
    BY <1>1 DEF RaysIn, SameMessage
  <2>3. Carriers(ray)' = {m \in sent : m.tag = RAY_TAG /\ ray \in RaysIn(m)
                                       /\ m \notin delivered'[m.dst]}
    BY <1>2, <2>2 DEF Carriers
  <2>4. \A m \in sent : m.tag = RAY_TAG =>
          (m \notin delivered'[m.dst] <=> m \notin delivered[m.dst] /\ m \notin arrived)
    BY <1>4, <1>5, <1>6, <1>10
  <2>5. QED
    BY <2>1, <2>3, <2>4 DEF Carriers
<1>12. ASSUME NEW a \in Ranks, NEW b \in Ranks, NEW ray \in InitialRays[a][b]
       PROVE  \E x : Places(ray)' = {x}
  <2>1. PICK x : Places(ray) = {x}
    BY DEF RayInv, OnePlace
  <2>2. Places(ray)' = Waiting(ray)' \cup Travelling(ray)' \cup Handed(ray)'
    BY DEF Places
  <2>3. Travelling(ray)' = {<<"moving", m.rank, m.id>> : m \in Carriers(ray)'}
    BY DEF Travelling
  <2>4. CASE arrived \cap Carriers(ray) = {}
    <3>1. Carriers(ray)' = Carriers(ray)
      BY <1>11, <2>4
    <3>2. Travelling(ray)' = Travelling(ray)
      BY <2>3, <3>1 DEF Travelling
    <3>3. Handed(ray)' = Handed(ray)
      <4>1. CASE arrived = {}
        BY <1>9, <4>1 DEF Handed
      <4>2. CASE arrived # {}
        <5>1. PICK last \in arrived : got' = [got EXCEPT ![r] = @ \cup RaysIn(last)]
          BY <1>9, <4>2
        <5>2. ray \notin RaysIn(last)
          BY <1>4, <1>6, <2>4 DEF Carriers
        <5>3. \A q \in Ranks : ray \in got'[q] <=> ray \in got[q]
          BY <5>1, <5>2 DEF RayInv, Vectors
        <5>4. QED
          BY <5>3 DEF Handed
      <4>3. QED
        BY <4>1, <4>2
    <3>4. QED
      BY <1>11, <2>1, <2>2, <3>2, <3>3 DEF Places
  <2>5. CASE arrived \cap Carriers(ray) # {}
    <3>1. PICK m \in arrived \cap Carriers(ray) : TRUE
      BY <2>5
    <3>2. arrived = {m}
      BY <1>8, <3>1
    <3>3. got' = [got EXCEPT ![r] = @ \cup RaysIn(m)]
      BY <1>9, <3>2
    <3>4. x = <<"moving", m.rank, m.id>>
      BY <2>1, <3>1 DEF Places, Travelling
    <3>5. Waiting(ray) = {}
      <4> SUFFICES ASSUME NEW w \in Waiting(ray) PROVE FALSE
        OBVIOUS
      <4>1. w = <<"moving", m.rank, m.id>> /\ w[1] = "waiting"
        BY <2>1, <3>4 DEF Places, Waiting
      <4>2. QED
        BY <4>1
    <3>6. Handed(ray) = {}
      <4> SUFFICES ASSUME NEW w \in Handed(ray) PROVE FALSE
        OBVIOUS
      <4>1. w = <<"moving", m.rank, m.id>> /\ w[1] = "got"
        BY <2>1, <3>4 DEF Places, Handed
      <4>2. QED
        BY <4>1
    <3>7. \A n \in Carriers(ray) : n = m
      <4> SUFFICES ASSUME NEW n \in Carriers(ray) PROVE n = m
        OBVIOUS
      <4>1. <<"moving", n.rank, n.id>> = <<"moving", m.rank, m.id>>
        BY <2>1, <3>4 DEF Places, Travelling
      <4>2. n \in sent /\ m \in sent /\ SameMessage(n, m)
        BY <3>1, <4>1 DEF Carriers, SameMessage
      <4>3. QED
        BY <4>2 DEF RayInv, ServiceInv, SentOnce
    <3>8. Carriers(ray)' = {}
      BY <1>11, <3>2, <3>7
    <3>9. Travelling(ray)' = {}
      BY <2>3, <3>8
    <3>10. Handed(ray)' = {<<"got", r>>}
      <4>1. ray \in RaysIn(m)
        BY <3>1 DEF Carriers
      <4>2. \A q \in Ranks : ray \in got'[q] <=> q = r
        <5>1. \A q \in Ranks : ray \notin got[q]
          <6> SUFFICES ASSUME NEW q \in Ranks, ray \in got[q] PROVE FALSE
            OBVIOUS
          <6>1. <<"got", q>> \in Handed(ray)
            BY DEF Handed
          <6>2. QED
            BY <3>6, <6>1
        <5>2. QED
          BY <3>3, <4>1, <5>1 DEF RayInv, Vectors
      <4>3. Handed(ray)' = {w \in {"got"} \X Ranks : ray \in got'[w[2]]}
        BY DEF Handed
      <4>4. QED
        BY <4>2, <4>3
    <3>11. Places(ray)' = {<<"got", r>>}
      BY <1>11, <2>2, <3>5, <3>9, <3>10
    <3>12. QED
      BY <3>11
  <2>6. QED
    BY <2>4, <2>5
<1>13. QED
  BY <1>12 DEF OnePlace

LEMMA OnePlaceQuiet ==
  ASSUME RayInv, UNCHANGED <<ray_map, content, got, delivered>>,
         \A m : m \in sent' /\ m.tag = RAY_TAG <=> m \in sent /\ m.tag = RAY_TAG
  PROVE  OnePlace'
<1>1. ASSUME NEW ray PROVE Places(ray)' = Places(ray)
  <2>1. \A m : RaysIn(m)' = RaysIn(m)
    BY DEF RaysIn, SameMessage
  <2>2. Waiting(ray)' = Waiting(ray) /\ Handed(ray)' = Handed(ray)
    BY DEF Waiting, Handed
  <2>3. Carriers(ray)' = Carriers(ray)
    BY <2>1 DEF Carriers
  <2>4. Travelling(ray)' = Travelling(ray)
    BY <2>3 DEF Travelling
  <2>5. QED
    BY <2>2, <2>4 DEF Places
<1>2. QED
  BY <1>1 DEF RayInv, OnePlace

LEMMA RayInvNext ==
  ASSUME OneRayReceive, RayInv, [RayNext]_allVars
  PROVE  RayInv'
<1>1. ServiceInv' /\ Vectors' /\ Contents'
  BY ServiceStep, StepOfMessenger, VectorsNext DEF RayInv
<1>2. ASSUME NEW r \in Ranks, RegisterMessages(r) PROVE OnePlace'
  <2>1. UNCHANGED <<sent, delivered>>
    BY <1>2 DEF RegisterMessages, RegisterTag, InitializeBuffers
  <2>2. UNCHANGED <<ray_map, content, got>>
    BY <1>2 DEF RegisterMessages, rayVars
  <2>3. QED
    BY <2>1, <2>2, OnePlaceQuiet
<1>3. ASSUME NEW r \in Ranks, NEW dst \in Ranks, SendRays(r, dst) PROVE OnePlace'
  BY <1>3, OnePlaceSend
<1>4. ASSUME NEW r \in Ranks, SendAllMsg(r) PROVE OnePlace'
  BY <1>4, OnePlaceQuiet DEF SendAllMsg, vars
<1>5. ASSUME NEW r \in Ranks, SendMsg(r) PROVE OnePlace'
  <2>1. SendData(r, Min(nextDst[r]), MESSAGE_TAG, MsgLen)
    BY <1>5 DEF SendMsg
  <2>2. PICK m : sent' = sent \cup {m} /\ m.tag = MESSAGE_TAG
    <3>1. PICK m : /\ sent' = sent \cup {m}
                   /\ m = [rank |-> r, dst |-> Min(nextDst[r]), id |-> msgID[r],
                           tag |-> MESSAGE_TAG, data |-> Bytes(0, MsgLen)]
      BY <2>1 DEF SendData
    <3>2. m.tag = MESSAGE_TAG
      BY <3>1
    <3>3. QED
      BY <3>1, <3>2
  <2>3. MESSAGE_TAG # RAY_TAG
    BY RayAssumption
  <2>4. UNCHANGED <<ray_map, content, got, delivered>>
    BY <1>5, <2>1 DEF SendMsg, SendData
  <2>5. QED
    BY <2>2, <2>3, <2>4, OnePlaceQuiet
<1>6. ASSUME NEW r \in Ranks, NEW done \in SUBSET recvBuffers[r], RecvAny(r, done)
      PROVE  OnePlace'
  BY <1>6, OnePlaceReceive
<1>7. ASSUME NEW r \in Ranks, Destroy(r) PROVE OnePlace'
  BY <1>7, OnePlaceQuiet DEF Destroy, CleanupRequests, rayVars
<1>8. ASSUME NEW p \in network, Progress(p) PROVE OnePlace'
  BY <1>8, OnePlaceQuiet DEF Progress, MatchReceive, rayVars
<1>9. ASSUME UNCHANGED allVars PROVE OnePlace'
  BY <1>9, OnePlaceQuiet DEF allVars, vars, rayVars
<1>10. OnePlace'
  BY <1>2, <1>3, <1>4, <1>5, <1>6, <1>7, <1>8, <1>9 DEF RayNext
<1>11. QED
  BY <1>1, <1>10 DEF RayInv

(* RayMessenger.cpp:121-138, 152-187: when one receive is posted for rays,  *)
(* every ray is at every moment in exactly one place, whatever the sizes,   *)
(* the order in which packets arrive and the moment ranks are destroyed.    *)
(* With more receives a call of RecvAny may find two ray messages whole,    *)
(* and the hypothesis cannot be dropped: the run ray_loss loses a ray.      *)
THEOREM RaysAreConserved == OneRayReceive /\ RaySpec => []RaysConserved
<1> SUFFICES ASSUME OneRayReceive PROVE RaySpec => []RaysConserved
  OBVIOUS
<1>1. RayInv => RaysConserved
  BY FS_Singleton DEF RayInv, OnePlace, RaysConserved
<1>2. RayInv /\ [RayNext]_allVars => RayInv'
  BY RayInvNext
<1>3. QED
  BY <1>1, <1>2, RayInvInit, PTL DEF RaySpec
=============================================================================
