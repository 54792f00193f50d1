---------------------------- MODULE MCMessenger -----------------------------
(* Two ranks, two tags: "msg" with one posted receive, "ray" with two, both *)
(* of 2 bytes, so that lengths 1 and 4 make one packet and three packets,   *)
(* the last of which is empty.                                              *)
EXTENDS Messenger

MCRanks == {0, 1}
MCTags == {"msg", "ray"}
MCNumRecvs == [t \in MCTags |-> IF t = "msg" THEN 1 ELSE 2]
MCMaxDataLen == [t \in MCTags |-> 2]
MCLengths == {1, 4}
MCMaxMsgs == [r \in MCRanks |-> 1]
=============================================================================
