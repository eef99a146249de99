SPECIFICATION Spec
CONSTANTS
  Labels <- MCLabels
  SchemeOf <- MCSchemeOf
  MaxActive = 2
  MaxIdle = 2
  MaxConns = 5
  MaxId = 3
  IdMod = 8
INVARIANTS ActiveIsHeld NoAliasing PoolBound
PROPERTY ImplementsLedger
