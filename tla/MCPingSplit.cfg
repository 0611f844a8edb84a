SPECIFICATION Spec
CONSTANTS
  Crates = {"bws", "bws.old"}
  Requests <- WellFormed
  Texts <- SomeTexts
  MaxLength = 256
INVARIANTS
  TypeIsTheClients
CHECK_DEADLOCK FALSE
