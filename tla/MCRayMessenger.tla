-------------------------- MODULE MCRayMessenger ----------------------------
(* Rank 0 receives rays from ranks 1 and 2, one of them in two packets, and *)
(* rank 1 also holds a ray addressed to itself, which is never sent.        *)
EXTENDS RayMessenger
CONSTANTS RayRecvs   \* nRaysRecvs of RegisterMessages

MCRanks == 0 .. 2
MCTags == {"msg", "ray"}
MCNumRecvs == [t \in MCTags |-> IF t = "ray" THEN RayRecvs ELSE 1]
MCMaxDataLen == [t \in MCTags |-> 1]
MCMaxMsgs == [r \in MCRanks |-> IF r = 0 THEN 0 ELSE IF r = 1 THEN 3 ELSE 2]
MCRay == {"a", "b", "c", "d"}
MCInitialRays ==
  [r \in MCRanks |-> [dst \in MCRanks |->
     IF r = 1 /\ dst = 0 THEN {"a", "b"}
     ELSE IF r = 2 /\ dst = 0 THEN {"c"}
     ELSE IF r = 1 /\ dst = 1 THEN {"d"} ELSE {}]]
=============================================================================
