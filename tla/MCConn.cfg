SPECIFICATION FairSpec
CONSTANTS
  Frames <- AllFrames
  Digests <- EdgeDigests
  MaxFrames = 4
INVARIANTS
  TypeOK
  StatusDialogue
  LookupIsEarned
  DisconnectIsDeserved
  ServerIdIsDigest
PROPERTIES
  CloseEndsTask
  KeepsDialogue
CHECK_DEADLOCK FALSE
