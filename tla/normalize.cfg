SPECIFICATION NormSpec
CONSTANTS
  Slash = "/"
  Dot = "."
  NUL = "0"
  Letters = {"a"}
  MaxLen = 8
INVARIANTS
  InPlace
  NormalizedIsReference
PROPERTIES
  Terminates
CHECK_DEADLOCK FALSE
