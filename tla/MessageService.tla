--------------------------- MODULE MessageService ---------------------------
(***************************************************************************)
(* What vtk-h's Messenger promises to the code built on it: an unordered   *)
(* message service between MPI ranks.  A message handed to SendData is     *)
(* returned by RecvData of the rank it is addressed to, whole, at most     *)
(* once, and never after that rank has cleaned up the tag.  Nothing is     *)
(* said of the order in which messages arrive, nor of buffers and packets. *)
(***************************************************************************)
CONSTANTS Ranks, Tags, Message

VARIABLES
  sent,        \* every message handed to SendData
  delivered,   \* delivered[r]: the messages RecvData has returned on rank r
  closed       \* closed[r]: the tags rank r has called CleanupRequests for

vars == <<sent, delivered, closed>>

Init ==
  /\ sent = {}
  /\ delivered = [r \in Ranks |-> {}]
  /\ closed = [r \in Ranks |-> {}]

(* A rank numbers its messages, so a new message differs from every old one. *)
Send(m) ==
  /\ \A s \in sent : <<s.rank, s.id>> # <<m.rank, m.id>>
  /\ sent' = sent \cup {m}
  /\ UNCHANGED <<delivered, closed>>

(* Messages still owed to rank r. *)
Owed(r) == {m \in sent : m.dst = r /\ m.tag \notin closed[r]} \ delivered[r]

Deliver(r, batch) ==
  /\ batch # {}
  /\ batch \subseteq Owed(r)
  /\ delivered' = [delivered EXCEPT ![r] = @ \cup batch]
  /\ UNCHANGED <<sent, closed>>

Close(r, tags) ==
  /\ closed' = [closed EXCEPT ![r] = @ \cup tags]
  /\ UNCHANGED <<sent, delivered>>

Next ==
  \/ \E m \in Message : Send(m)
  \/ \E r \in Ranks :
       \/ \E batch \in SUBSET Owed(r) : Deliver(r, batch)
       \/ \E tags \in SUBSET Tags : Close(r, tags)

Spec == Init /\ [][Next]_vars
=============================================================================
