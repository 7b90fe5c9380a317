CONSTANTS
  c1 = c1
  c2 = c2
  f = f
  g = g
  nat = nat
  NoFn = NoFn
  Contexts = {c1, c2}
  Regular = {f, g}
  Native = {nat}
  Length <- MCLength
  MaxDepth = 4
  MaxNesting = 2
  OwnContexts = TRUE
SPECIFICATION Spec
SYMMETRY Alike
INVARIANTS
  Resumes
CHECK_DEADLOCK FALSE
