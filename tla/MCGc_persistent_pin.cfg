CONSTANTS
  r = r
  a = a
  b = b
  c = c
  d = d
  Object = {r, a, b}
  Root = r
  TypeDefs = {}
  Carriers = {}
  Opaque = {}
  Shape <- AllEqual
  MaxPins = 1
  MaxRefs = 1
  MaxThreads = 0
  MaxCache = 0
SPECIFICATION Spec
PROPERTIES
  DeletesUnreachable
CHECK_DEADLOCK FALSE
