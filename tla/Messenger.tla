----------------------------- MODULE Messenger ------------------------------
(***************************************************************************)
(* vtkh::Messenger (filters/communication/Messenger.cpp): point-to-point   *)
(* messages between MPI ranks.  A message longer than the size registered  *)
(* for its tag is cut into packets; each rank keeps a fixed pool of        *)
(* receives posted per tag, polls them, re-posts the ones that completed   *)
(* and puts the packets of a message together again.                       *)
(*                                                                         *)
(* A byte is abstracted to its position in the message, so a payload of    *)
(* length n is <<1, ..., n>>: losing, repeating or permuting a piece of it *)
(* shows.  recvPackets, a map from (rank, id) to a list of packets in the  *)
(* code, is the set of all listed packets: every packet carries its rank   *)
(* and id, and the list is sorted before it is used.                       *)
(***************************************************************************)
EXTENDS Integers, SequencesExt

CONSTANTS
  Ranks,       \* ranks of the communicator
  Tags,        \* tags a messenger registers
  NumRecvs,    \* NumRecvs[t]: receives kept posted for tag t
  MaxDataLen,  \* MaxDataLen[t]: registered payload bytes of one packet of tag t
  Lengths,     \* message lengths used by senders
  MaxMsgs      \* bound: MaxMsgs[r], messages rank r sends

ASSUME TagAssumption ==
  /\ NumRecvs \in [Tags -> Nat \ {0}]
  /\ MaxDataLen \in [Tags -> Nat \ {0}]

ASSUME BoundAssumption == Lengths \subseteq Nat /\ MaxMsgs \in [Ranks -> Nat]

VARIABLES
  messageTagInfo,  \* messageTagInfo[r]: tags registered by rank r
  ready,           \* ready[r]: rank r has run InitializeBuffers
  msgID,           \* msgID[r]: id of the next message rank r sends
  network,         \* packets sent and not yet matched with a posted receive
  sendBuffers,     \* sendBuffers[r]: packets whose send has not been reaped
  posted,          \* posted[r][t]: receives of tag t posted and not matched
  recvBuffers,     \* recvBuffers[r]: packets matched with a posted receive
  recvPackets,     \* recvPackets[r]: packets of messages not complete yet
  sent,            \* history: messages handed to SendData
  delivered,       \* history: delivered[r], messages RecvData returned on r
  closed           \* history: closed[r], tags rank r has cleaned up

local == <<messageTagInfo, ready>>
vars == <<messageTagInfo, ready, msgID, network, sendBuffers, posted,
          recvBuffers, recvPackets, sent, delivered, closed>>

-----------------------------------------------------------------------------
(* Payloads, packets and reassembly.                                       *)

Bytes(pos, n) == [j \in 1..n |-> pos + j]

Packet == [rank : Ranks, dst : Ranks, id : Nat, tag : Tags,
           numPackets : Nat \ {0}, packet : Nat, data : Seq(Nat)]

(* Mutant of NumPackets: the incomplete last packet is not counted. *)
NumPacketsWhole(tag, len) ==
  IF len > MaxDataLen[tag] THEN len \div MaxDataLen[tag] ELSE 0

NumPackets(tag, len) ==
  1 + IF len > MaxDataLen[tag] THEN len \div MaxDataLen[tag] ELSE 0

(* Mutant of PacketOf: the packets are counted from -1. *)
PacketOfShifted(r, dst, id, tag, len, i) ==
  [rank |-> r, dst |-> dst, id |-> id, tag |-> tag,
   numPackets |-> NumPackets(tag, len), packet |-> i - 1,
   data |-> Bytes(i * MaxDataLen[tag], MaxDataLen[tag])]

(* The i-th packet: maxDataLen bytes, the last one what is left, which is   *)
(* nothing when the length is a multiple of maxDataLen.                    *)
PacketOf(r, dst, id, tag, len, i) ==
  LET n == NumPackets(tag, len)
      pos == i * MaxDataLen[tag]
  IN  [rank |-> r, dst |-> dst, id |-> id, tag |-> tag,
       numPackets |-> n, packet |-> i,
       data |-> Bytes(pos, IF i = n - 1 THEN len - pos ELSE MaxDataLen[tag])]

PrepareForSend(r, dst, id, tag, len) ==
  {PacketOf(r, dst, id, tag, len, i) : i \in 0 .. NumPackets(tag, len) - 1}

(* Mutant of PacketCompare: last packet first. *)
PacketCompareReversed(a, b) == a.packet > b.packet

PacketCompare(a, b) == a.packet < b.packet

SameMessage(p, q) == p.rank = q.rank /\ p.id = q.id

PacketsOf(p, packets) == {q \in packets : SameMessage(p, q)}

(* All packets of p's message are among packets. *)
Complete(p, packets) == Cardinality(PacketsOf(p, packets)) = p.numPackets

(* packetList.sort(PacketCompare): i - 1 packets come before the i-th.     *)
InOrder(packets) ==
  [i \in 1 .. Cardinality(packets) |->
     CHOOSE p \in packets :
       Cardinality({q \in packets : PacketCompare(q, p)}) = i - 1]

(* The message made of the packets of p's message. *)
Merge(p, packets) ==
  LET parts == InOrder(PacketsOf(p, packets))
  IN  [rank |-> p.rank, dst |-> p.dst, id |-> p.id, tag |-> p.tag,
       data |-> FlattenSeq([i \in DOMAIN parts |-> parts[i].data])]

-----------------------------------------------------------------------------
Init ==
  /\ messageTagInfo = [r \in Ranks |-> {}]
  /\ ready = [r \in Ranks |-> FALSE]
  /\ msgID = [r \in Ranks |-> 0]
  /\ network = {}
  /\ sendBuffers = [r \in Ranks |-> {}]
  /\ posted = [r \in Ranks |-> [t \in Tags |-> 0]]
  /\ recvBuffers = [r \in Ranks |-> {}]
  /\ recvPackets = [r \in Ranks |-> {}]
  /\ sent = {}
  /\ delivered = [r \in Ranks |-> {}]
  /\ closed = [r \in Ranks |-> {}]

(* A tag registered before is refused with an exception, nothing changes.  *)
RegisterTag(r, tag) ==
  /\ ~ready[r]
  /\ tag \notin messageTagInfo[r]
  /\ messageTagInfo' = [messageTagInfo EXCEPT ![r] = @ \cup {tag}]
  /\ UNCHANGED <<ready, msgID, network, sendBuffers, posted, recvBuffers,
                 recvPackets, sent, delivered, closed>>

(* Called once all tags are registered (RayMessenger::RegisterMessages).   *)
InitializeBuffers(r) ==
  /\ ~ready[r]
  /\ messageTagInfo[r] = Tags
  /\ ready' = [ready EXCEPT ![r] = TRUE]
  /\ posted' = [posted EXCEPT ![r] = [t \in Tags |-> @[t] + NumRecvs[t]]]
  /\ UNCHANGED <<messageTagInfo, msgID, network, sendBuffers, recvBuffers,
                 recvPackets, sent, delivered, closed>>

(* SendData: number the message, cut it up, one MPI_Isend per packet.      *)
SendData(r, dst, tag, len) ==
  /\ tag \in messageTagInfo[r]
  /\ msgID[r] < MaxMsgs[r]
  /\ LET packets == PrepareForSend(r, dst, msgID[r], tag, len)
     IN  /\ network' = network \cup packets
         /\ sendBuffers' = [sendBuffers EXCEPT ![r] = @ \cup packets]
  /\ sent' = sent \cup {[rank |-> r, dst |-> dst, id |-> msgID[r],
                         tag |-> tag, data |-> Bytes(0, len)]}
  /\ msgID' = [msgID EXCEPT ![r] = @ + 1]
  /\ UNCHANGED <<local, posted, recvBuffers, recvPackets, delivered, closed>>

(* MPI does not let a packet overtake an earlier one from the same sender  *)
(* to the same receiver with the same tag.                                 *)
Overtakes(p, q) ==
  /\ <<q.rank, q.dst, q.tag>> = <<p.rank, p.dst, p.tag>>
  /\ q.id < p.id \/ (q.id = p.id /\ q.packet < p.packet)

(* MPI matches a packet with a receive posted for its tag, any source.     *)
MatchReceive(p) ==
  /\ p \in network
  /\ posted[p.dst][p.tag] > 0
  /\ ~ \E q \in network : Overtakes(p, q)
  /\ network' = network \ {p}
  /\ posted' = [posted EXCEPT ![p.dst][p.tag] = @ - 1]
  /\ recvBuffers' = [recvBuffers EXCEPT ![p.dst] = @ \cup {p}]
  /\ UNCHANGED <<local, msgID, sendBuffers, recvPackets, sent, delivered,
                 closed>>

(* Mutants of RePosted: one receive however many have completed, or none.   *)
RePostedOnce(r, done) ==
  [t \in Tags |-> posted[r][t] + IF \E p \in done : p.tag = t THEN 1 ELSE 0]

RePostedNever(r, done) == posted[r]

(* PostRecv for each completed request: posted[r] once every request of    *)
(* done is posted again.                                                   *)
RePosted(r, done) ==
  [t \in Tags |-> posted[r][t] + Cardinality({p \in done : p.tag = t})]

(* Mutants of RecvData: the packets of a returned message stay listed; the   *)
(* packets of earlier calls are forgotten.                                 *)
RecvDataKeeping(r, done) ==
  LET known == recvPackets[r] \cup done
      whole == {p \in known : Complete(p, known)}
  IN  /\ done # {} /\ done \subseteq recvBuffers[r]
      /\ recvBuffers' = [recvBuffers EXCEPT ![r] = @ \ done]
      /\ recvPackets' = [recvPackets EXCEPT ![r] = known]
      /\ delivered' =
           [delivered EXCEPT ![r] = @ \cup {Merge(p, known) : p \in whole}]
      /\ posted' = [posted EXCEPT ![r] = RePosted(r, done)]
      /\ UNCHANGED <<local, msgID, network, sendBuffers, sent, closed>>

RecvDataForgetting(r, done) ==
  LET whole == {p \in done : Complete(p, done)}
  IN  /\ done # {} /\ done \subseteq recvBuffers[r]
      /\ recvBuffers' = [recvBuffers EXCEPT ![r] = @ \ done]
      /\ recvPackets' = [recvPackets EXCEPT ![r] = done \ whole]
      /\ delivered' =
           [delivered EXCEPT ![r] = @ \cup {Merge(p, done) : p \in whole}]
      /\ posted' = [posted EXCEPT ![r] = RePosted(r, done)]
      /\ UNCHANGED <<local, msgID, network, sendBuffers, sent, closed>>

(* RecvData(tags) on rank r: MPI_Testsome or MPI_Waitsome reports the      *)
(* requests of done complete, in any order; ProcessReceivedBuffers hands   *)
(* out the messages that are whole and keeps the packets of the others;    *)
(* then one receive is posted again for each completed one.                *)
RecvData(r, done) ==
  LET known == recvPackets[r] \cup done
      whole == {p \in known : Complete(p, known)}
  IN  /\ done # {} /\ done \subseteq recvBuffers[r]
      /\ recvBuffers' = [recvBuffers EXCEPT ![r] = @ \ done]
      /\ recvPackets' = [recvPackets EXCEPT ![r] = known \ whole]
      /\ delivered' =
           [delivered EXCEPT ![r] = @ \cup {Merge(p, known) : p \in whole}]
      /\ posted' = [posted EXCEPT ![r] = RePosted(r, done)]
      /\ UNCHANGED <<local, msgID, network, sendBuffers, sent, closed>>

(* CheckPendingSendRequests: free the buffers of the sends in done, which  *)
(* MPI_Testsome reports complete: all of them when MPI buffers what it     *)
(* sends, only the matched ones when it does not.                          *)
CheckPendingSendRequests(r, done) ==
  /\ done # {} /\ done \subseteq sendBuffers[r]
  /\ sendBuffers' = [sendBuffers EXCEPT ![r] = @ \ done]
  /\ UNCHANGED <<local, msgID, network, posted, recvBuffers, recvPackets,
                 sent, delivered, closed>>

(* CleanupRequests(tags): cancel and free every receive of the tags, those *)
(* already matched included; what they hold is lost.                       *)
CleanupRequests(r, tags) ==
  /\ ready[r]
  /\ posted' = [posted EXCEPT ![r] =
                  [t \in Tags |-> IF t \in tags THEN 0 ELSE @[t]]]
  /\ recvBuffers' = [recvBuffers EXCEPT ![r] = {p \in @ : p.tag \notin tags}]
  /\ closed' = [closed EXCEPT ![r] = @ \cup tags]
  /\ UNCHANGED <<local, msgID, network, sendBuffers, recvPackets, sent,
                 delivered>>

Next ==
  \/ \E r \in Ranks :
       \/ \E t \in Tags : RegisterTag(r, t)
       \/ InitializeBuffers(r)
       \/ \E dst \in Ranks, t \in Tags, len \in Lengths :
            SendData(r, dst, t, len)
       \/ \E done \in SUBSET recvBuffers[r] : RecvData(r, done)
       \/ \E done \in {sendBuffers[r], sendBuffers[r] \ network} :
            CheckPendingSendRequests(r, done)
       \/ \E tags \in {Tags} \cup {{t} : t \in Tags} : CleanupRequests(r, tags)
  \/ \E p \in network : MatchReceive(p)

Spec == Init /\ [][Next]_vars

-----------------------------------------------------------------------------
(* Properties.                                                             *)

TypeOK ==
  /\ messageTagInfo \in [Ranks -> SUBSET Tags]
  /\ ready \in [Ranks -> BOOLEAN]
  /\ msgID \in [Ranks -> Nat]
  /\ network \subseteq Packet
  /\ sendBuffers \in [Ranks -> SUBSET Packet]
  /\ posted \in [Ranks -> [Tags -> Nat]]
  /\ recvBuffers \in [Ranks -> SUBSET Packet]
  /\ recvPackets \in [Ranks -> SUBSET Packet]
  /\ closed \in [Ranks -> SUBSET Tags]

(* Packets a rank holds, in a matched receive or waiting for the others.   *)
Held(r) == recvBuffers[r] \cup recvPackets[r]

(* A message that RecvData has returned leaves no packet behind, in the    *)
(* network, in a receive or in the reassembly list: it cannot be returned  *)
(* a second time (Messenger.cpp:303-313, 388).                             *)
AtMostOnce ==
  \A r \in Ranks : \A m \in delivered[r] :
    \A p \in network \cup Held(r) : ~SameMessage(m, p)

(* Until a message is returned or its receiver cleans up the tag, each of  *)
(* its packets is in exactly one place: on its way, in a matched receive,  *)
(* or in the reassembly list (Messenger.cpp:189-214, 303-393).             *)
NothingLost ==
  \A m \in sent :
    \/ m \in delivered[m.dst]
    \/ m.tag \in closed[m.dst]
    \/ \A p \in PrepareForSend(m.rank, m.dst, m.id, m.tag, Len(m.data)) :
         /\ p \in network \cup Held(m.dst)
         /\ ~(p \in network /\ p \in Held(m.dst))
         /\ ~(p \in recvBuffers[m.dst] /\ p \in recvPackets[m.dst])

(* Whatever completes, the number of receives of a tag, posted or matched, *)
(* stays the registered one until the tag is cleaned up: "number of        *)
(* receives to check each time" (Messenger.hpp:34).                        *)
PoolConserved ==
  \A r \in Ranks : \A t \in Tags :
    posted[r][t] + Cardinality({p \in recvBuffers[r] : p.tag = t}) =
      IF ready[r] /\ t \notin closed[r] THEN NumRecvs[t] ELSE 0

(* The messages the bounds let the ranks send. *)
Sendable ==
  UNION {{[rank |-> r, dst |-> dst, id |-> i, tag |-> t, data |-> Bytes(0, len)] :
            dst \in Ranks, i \in 0 .. MaxMsgs[r] - 1, t \in Tags, len \in Lengths}
         : r \in Ranks}

(* The messenger is the reliable unordered service of MessageService: what *)
(* RecvData returns was sent to this rank, is whole and byte for byte in   *)
(* order, and was not returned before.                                     *)
Service == INSTANCE MessageService WITH Message <- Sendable

ServiceSpec == Service!Spec

(* A message sent is eventually returned, unless its receiver gives up the *)
(* tag: re-posting never lets the pool run dry.                            *)
EventuallyDelivered ==
  \A r \in Ranks : \A i \in 0 .. MaxMsgs[r] - 1 :
    msgID[r] > i ~>
      \A m \in sent : (m.rank = r /\ m.id = i) =>
        m \in delivered[m.dst] \/ m.tag \in closed[m.dst]
=============================================================================
