SPECIFICATION ReadSpec
CONSTANT Levels <- MCLevels
INVARIANTS
  ReturnIsExact
PROPERTIES
  CallReturns
