SPECIFICATION Spec
CONSTANTS
  Room = 2
  MaxOut = 3
  Parts = 2
  Flight = 3
INVARIANTS NoLostWakeup OpenIsRegistered
PROPERTIES NotClosedUnasked EverythingIsSent CloseIsNoticed
