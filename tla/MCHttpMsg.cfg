SPECIFICATION MsgSpec
CONSTANTS
  Exchanges <- MCExchanges
  BlockBytes = 5
  ExpectLen = 2
INVARIANTS AsSent TakenWhole
PROPERTIES ContinueIsSent SentIsTaken
\* An exchange is over when the connection is closed.
CHECK_DEADLOCK FALSE
