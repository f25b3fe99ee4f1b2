SPECIFICATION FairSpec
CONSTANTS
  a1 = a1 a2 = a2
  Addrs <- TwoAddrs
  Sites <- AllSites
  Commands <- AllCommands
INVARIANTS
  SuccessIsDone
PROPERTIES
  CommandEnds
  HeldByJoin
