SPECIFICATION FairSpec
CONSTANTS
  MaxTime = 3
PROPERTIES
  SignalHeard
  WokenBySignal
  ComesBack
