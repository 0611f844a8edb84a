SPECIFICATION FairSpec
CONSTANTS
  Crates = {"bws", "bws.old"}
  Requests <- AllRequests
  Texts <- SomeTexts
  MaxLength = 256
INVARIANTS
  TypeOK
  PayloadIsTheClients
  ResponseFramed
  OnlyMalformedPanics
PROPERTIES
  WholeRequestRecognised
  HangUpEndsTask
CHECK_DEADLOCK FALSE
