CONSTANTS
  Classes = {"A", "B", "C"}
  Chains <- MCChains
  FieldSorts <- MCFieldSorts
  Functions <- MCFunctions
  FieldMax = 3
  Nodes = {"S", "T", "U"}
  Shapes <- MCShapes
  FrameMax = 7
  Types <- MCTypes
  Values <- MCValues
  TypeLists <- MCTypeLists
  ObjectMax = 3
  RecordMax = 2
  Decl <- MCDecl
  Originals <- MCOriginals
  Arguments <- MCArguments
  RefTypes <- MCRefTypes
  InstanceMax = 2
SPECIFICATION MCSpec
INVARIANTS
  LayoutSound
  OverridesWin
  RecursionFound
  SizesKnown
  DeferredAreListed
  ValuesBelongToFields
  CacheSound
CHECK_DEADLOCK FALSE
