CONSTANTS
  StackSize = 10
  MaxRegs = 1
  MaxArgs = 2
  Data = {"x", "none"}
  Invalid = "none"
  Balanced = TRUE
  Confined = TRUE
SPECIFICATION MCSpec
INVARIANTS
  TypeOK
  HeadersIntact
PROPERTIES
  ImplementsCallStack
CHECK_DEADLOCK FALSE
