SPECIFICATION LiveSpec
CONSTANTS
  a = a b = b d = d x = x y = y
  Onces <- Clients
  Dupes <- Hurls
  LabelOf <- ServerOf
  Settings <- ProxyOrHurl
  NumFetches = 4
  Keepalive = TRUE
  SubmitFails = FALSE
  MaxParallel = 1
  NumConns = 4
  NumNodes = 4
  NumJobs = 3
  MaxExpiries = 1
INVARIANTS QueuedIsListed CancelFindsIt NothingIsLost DupeStaysQueued
PROPERTIES EveryRequestEnds DeqTerminates
\* Without clients and requests the thread waits for ever.
CHECK_DEADLOCK FALSE
