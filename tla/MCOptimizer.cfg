CONSTANTS
  CodeMax = 3
  TargetMax = 3
  Menus <- MCMenus
  Params <- MCParams
  Variadic = TRUE
  ThisType <- MCThisType
SPECIFICATION MCSpec
INVARIANTS
  DivisionSound
  RegistersDescribed
  PushesReachOneCall
  BoundariesAgree
CHECK_DEADLOCK FALSE
