SPECIFICATION FairSpec
CONSTANTS
  MaxTime = 3
PROPERTIES
  NoReconnect
