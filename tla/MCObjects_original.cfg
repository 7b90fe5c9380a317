CONSTANTS
  Classes = {"A", "B", "C"}
  Chains <- MCChains
  FieldSorts <- MCFieldSorts
  Functions <- MCFunctions
  FieldMax = 3
  Nodes = {"S", "T", "U"}
  Shapes <- MCShapes
  FrameMax = 7
  Types <- MCTypes
  Values <- MCValues
  TypeLists <- MCTypeLists
  ObjectMax = 3
  RecordMax = 2
  Decl <- MCDecl
  Originals <- MCOriginals
  Arguments <- MCArguments
  RefTypes <- MCRefTypes
  InstanceMax = 2
SPECIFICATION MCSpec
INVARIANTS
  OriginalUntouched
CHECK_DEADLOCK FALSE
