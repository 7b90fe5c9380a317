CONSTANTS
  Builds = {"debug", "release"}
  Written <- MCWritten
  Types <- MCTypes
  Bits <- MCBits
  Digits <- MCDigits
  Top <- MCTop
  Word = 2
SPECIFICATION MCSpec
INVARIANTS
  ReadGivesWritten
  LocalStaysLocal
  IntegersSound
PROPERTIES
  FModEnds
CHECK_DEADLOCK FALSE
