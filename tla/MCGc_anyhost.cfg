CONSTANTS
  r = r
  a = a
  b = b
  c = c
  d = d
  Object = {r, b, c, d}
  Root = r
  TypeDefs = {c, d}
  Carriers = {b}
  Opaque = {}
  Shape <- AllEqual
  MaxPins = 1
  MaxRefs = 1
  MaxThreads = 1
  MaxCache = 0
SPECIFICATION FairSpec
CONSTRAINT Interned
INVARIANTS
  PinnedNeverFreed
  InternTableLive
  NoDangling
PROPERTIES
  GcEnds
CHECK_DEADLOCK FALSE
