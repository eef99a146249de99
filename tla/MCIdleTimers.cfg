SPECIFICATION Spec
CONSTANTS
  Timers = {"t1", "t2", "t3", "t4"}
  Clients = {"c1"}
  Upstreams = {"u1", "u2"}
  Data <- MCData
  TimeoutOf <- MCTimeoutOf
  MaxDelay = 2
  DefaultWait = 3
INVARIANTS OneTimerEach CheckedInTime WaitCoversTimers
PROPERTY IdleKilled
