CONSTANTS
  StackSize = 10
  MaxRegs = 2
  MaxArgs = 1
  Data = {"x", "none"}
  Invalid = "none"
  Balanced = TRUE
  Confined = TRUE
SPECIFICATION Spec
INVARIANTS
  HeadersIntact
CHECK_DEADLOCK FALSE
