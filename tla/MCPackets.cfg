SPECIFICATION Spec
CONSTANTS
  LengthLimit = 40
  JsonTexts <- SomeJson
  OwnPackets <- AllPackets
  ForeignBodies <- AllForeign
  ForeignPrefixes <- AllPrefixes
  MaxFrames = 2
INVARIANTS
  TypeOK
  FramesAligned
  OwnPacketsRead
  OversizeNotDecoded
  AcceptedReencodes
CHECK_DEADLOCK FALSE
