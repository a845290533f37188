CONSTANTS
  MaxConns = 1
  PongsCap = 10
  InboxCap = 5
  MaxMessages = 6
  MaxFaults = 1
SPECIFICATION FairXmppSpec
CHECK_DEADLOCK FALSE
PROPERTIES ClosedEnds
