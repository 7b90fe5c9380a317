CONSTANTS
  r = r
  a = a
  b = b
  c = c
  d = d
  Object = {r, a, b, c}
  Root = r
  TypeDefs = {}
  Carriers = {}
  Opaque = {}
  Shape <- AllEqual
  MaxPins = 1
  MaxRefs = 1
  MaxThreads = 1
  MaxCache = 1
SPECIFICATION Spec
SYMMETRY Symmetry
CONSTRAINT Explored
INVARIANTS
  TypeOK
  NoDangling
  NoStaleMarks
  GenerationMatchesList
  NothingSurvivesDeinit
PROPERTIES
  FullGcIsPrecise
  OnlyUnreachableDeleted
  ImplementsHeap
CHECK_DEADLOCK FALSE
