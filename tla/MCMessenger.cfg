SPECIFICATION Spec
CONSTANTS
  Ranks <- MCRanks
  Tags <- MCTags
  NumRecvs <- MCNumRecvs
  MaxDataLen <- MCMaxDataLen
  Lengths <- MCLengths
  MaxMsgs <- MCMaxMsgs
INVARIANT TypeOK
INVARIANT AtMostOnce
INVARIANT NothingLost
INVARIANT PoolConserved
CHECK_DEADLOCK FALSE
PROPERTY ServiceSpec
