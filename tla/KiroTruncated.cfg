SPECIFICATION Spec
CONSTANTS
  Pieces <- SomePieces
  Tools <- SomeTools
  Short <- SomeShort
  Inputs <- SomeInputs
  MaxEvents <- SomeEvents
  Keys = {"k1", "k2"}
  NoKey = "none"
  Malformed = "malformed"
  Bodies <- SomeBodies
  ModelNames <- SomeNames
  Aliases <- SomeAliases
  ChunkSize = 2
  MaxChanges = 2
  Places = 4
CONSTRAINT OneAdmitted
INVARIANT TruncationIsFailure
CHECK_DEADLOCK FALSE
