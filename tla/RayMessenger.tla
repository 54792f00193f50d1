---------------------------- MODULE RayMessenger ----------------------------
(***************************************************************************)
(* vtkh::RayMessenger (filters/communication/RayMessenger.cpp): rays and   *)
(* control messages between ranks, on top of Messenger.  A caller hands    *)
(* over vectors of rays, one per destination, and polls for what arrives.  *)
(* A ray is an opaque value; the number of bytes a ray takes in a message  *)
(* is RayBytes.                                                            *)
(***************************************************************************)
EXTENDS Messenger

CONSTANTS
  MESSAGE_TAG, RAY_TAG,
  Ray,           \* the rays of the whole computation
  RayBytes,      \* serialised size of one ray
  MsgLen,        \* serialised size of a control message
  InitialRays    \* InitialRays[r][dst]: rays rank r has ready to send to dst

(* Ranks are MPI ranks; the lengths of Messenger are those of the messages *)
(* sent here; a ray is an element of one of the callers' vectors.          *)
ASSUME RayAssumption ==
  /\ Ranks \subseteq Nat
  /\ Tags = {MESSAGE_TAG, RAY_TAG} /\ MESSAGE_TAG # RAY_TAG
  /\ RayBytes \in Nat \ {0}
  /\ InitialRays \in [Ranks -> [Ranks -> SUBSET Ray]]
  /\ MsgLen \in Lengths
  /\ \A r, dst \in Ranks : RayBytes * Cardinality(InitialRays[r][dst]) \in Lengths
  /\ \A x, y \in Ranks \X Ranks :
       x # y => InitialRays[x[1]][x[2]] \cap InitialRays[y[1]][y[2]] = {}

VARIABLES
  ray_map,   \* ray_map[r][dst]: the caller's vector of rays for dst
  nextDst,   \* nextDst[r]: ranks SendAllMsg has still to send to
  content,   \* what is in each ray message: records [rank, id, rays]
  got        \* got[r]: rays RecvAny has given to the caller on rank r

rayVars == <<ray_map, nextDst, content, got>>
allVars == <<vars, rayVars>>

RayInit ==
  /\ Init
  /\ ray_map = InitialRays
  /\ nextDst = [r \in Ranks |-> {}]
  /\ content = {}
  /\ got = [r \in Ranks |-> {}]

(* Rays of a message that has been sent. *)
RaysIn(m) == UNION {c.rays : c \in {d \in content : SameMessage(d, m)}}

RegisterMessages(r) ==
  /\ (\E t \in Tags : RegisterTag(r, t)) \/ InitializeBuffers(r)
  /\ UNCHANGED rayVars

(* Mutant of SendRays: the caller's vector is not cleared. *)
SendRaysKeeping(r, dst) ==
  /\ ready[r] /\ nextDst[r] = {}
  /\ dst # r
  /\ ray_map[r][dst] # {}
  /\ SendData(r, dst, RAY_TAG, RayBytes * Cardinality(ray_map[r][dst]))
  /\ content' = content \cup
                  {[rank |-> r, id |-> msgID[r], rays |-> ray_map[r][dst]]}
  /\ UNCHANGED <<ray_map, nextDst, got>>

(* SendRays(dst, rays): sending to oneself is refused and an empty vector  *)
(* sends nothing; in both cases the vector is left as it is.               *)
SendRays(r, dst) ==
  /\ ready[r] /\ nextDst[r] = {}
  /\ dst # r
  /\ ray_map[r][dst] # {}
  /\ SendData(r, dst, RAY_TAG, RayBytes * Cardinality(ray_map[r][dst]))
  /\ content' = content \cup
                  {[rank |-> r, id |-> msgID[r], rays |-> ray_map[r][dst]]}
  /\ ray_map' = [ray_map EXCEPT ![r][dst] = {}]
  /\ UNCHANGED <<nextDst, got>>

(* SendAllMsg: one SendMsg after the other to every rank but oneself.      *)
SendAllMsg(r) ==
  /\ ready[r] /\ nextDst[r] = {}
  /\ msgID[r] + Cardinality(Ranks) - 1 <= MaxMsgs[r]
  /\ nextDst' = [nextDst EXCEPT ![r] = Ranks \ {r}]
  /\ UNCHANGED <<vars, ray_map, content, got>>

SendMsg(r) ==
  /\ nextDst[r] # {}
  /\ LET dst == Min(nextDst[r])
     IN  /\ SendData(r, dst, MESSAGE_TAG, MsgLen)
         /\ nextDst' = [nextDst EXCEPT ![r] = @ \ {dst}]
  /\ UNCHANGED <<ray_map, content, got>>

(* RecvAny: every ray message RecvData returned resizes the caller's       *)
(* vector and fills it from its start, so the caller gets the rays of the  *)
(* message handled last; messages are handled in any order.                *)
RecvAny(r, done) ==
  /\ nextDst[r] = {}
  /\ RecvData(r, done)
  /\ LET arrived == {m \in delivered'[r] \ delivered[r] : m.tag = RAY_TAG}
     IN  IF arrived = {} THEN UNCHANGED got
         ELSE \E last \in arrived :
                got' = [got EXCEPT ![r] = @ \cup RaysIn(last)]
  /\ UNCHANGED <<ray_map, nextDst, content>>

(* The destructor. *)
Destroy(r) ==
  /\ nextDst[r] = {}
  /\ CleanupRequests(r, Tags)
  /\ UNCHANGED rayVars

Progress(p) == MatchReceive(p) /\ UNCHANGED rayVars

RayNext ==
  \/ \E r \in Ranks :
       \/ RegisterMessages(r)
       \/ \E dst \in Ranks : SendRays(r, dst)
       \/ SendAllMsg(r)
       \/ SendMsg(r)
       \/ \E done \in SUBSET recvBuffers[r] : RecvAny(r, done)
       \/ Destroy(r)
  \/ \E p \in network : Progress(p)

(* Every rank finishes its setup and sends what it has; a rank polls until  *)
(* every matched request has completed; MPI makes progress on a packet for *)
(* which a receive is posted.  SendAllMsg and the destructor are up to the *)
(* caller.                                                                 *)
RayFairness ==
  /\ \A r \in Ranks :
       /\ WF_allVars(RegisterMessages(r))
       /\ WF_allVars(\E dst \in Ranks : SendRays(r, dst))
       /\ WF_allVars(SendMsg(r))
       /\ WF_allVars(RecvAny(r, recvBuffers[r]))
  /\ WF_allVars(\E p \in network : Progress(p))

RaySpec == RayInit /\ [][RayNext]_allVars

FairRaySpec == RaySpec /\ RayFairness

-----------------------------------------------------------------------------
(* Where a ray is: in a vector to be sent, in a message on its way, or with *)
(* the caller of RecvAny.                                                  *)
Waiting(ray) == {x \in {"waiting"} \X Ranks \X Ranks : ray \in ray_map[x[2]][x[3]]}

Carriers(ray) ==
  {m \in sent : m.tag = RAY_TAG /\ ray \in RaysIn(m) /\ m \notin delivered[m.dst]}

Travelling(ray) == {<<"moving", m.rank, m.id>> : m \in Carriers(ray)}

Handed(ray) == {x \in {"got"} \X Ranks : ray \in got[x[2]]}

Places(ray) == Waiting(ray) \cup Travelling(ray) \cup Handed(ray)

(* No ray disappears and none is duplicated: at every moment a ray is with *)
(* a caller that has yet to send it, in one message on its way, or with    *)
(* the caller that received it (RayMessenger.cpp:121-138, 152-187).        *)
RaysConserved ==
  \A r, dst \in Ranks : \A ray \in InitialRays[r][dst] :
    Cardinality(Places(ray)) = 1

(* Every ray a rank hands over for another rank eventually reaches the     *)
(* caller there, unless that rank is destroyed or the sender's bound on    *)
(* messages is used up.                                                    *)
RaysArrive ==
  \A r \in Ranks : \A dst \in Ranks \ {r} : \A ray \in InitialRays[r][dst] :
    <>(\/ ray \in got[dst]
       \/ closed[dst] # {}
       \/ ray \in ray_map[r][dst] /\ msgID[r] = MaxMsgs[r])
=============================================================================
