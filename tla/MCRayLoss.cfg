SPECIFICATION RaySpec
CONSTANTS
  Ranks <- MCRanks
  Tags <- MCTags
  NumRecvs <- MCNumRecvs
  MaxDataLen <- MCMaxDataLen
  Lengths = {0, 1, 2}
  MaxMsgs <- MCMaxMsgs
  MESSAGE_TAG = "msg"
  RAY_TAG = "ray"
  Ray <- MCRay
  RayBytes = 1
  MsgLen = 1
  InitialRays <- MCInitialRays
  RayRecvs = 2
INVARIANT RaysConserved
CHECK_DEADLOCK FALSE
