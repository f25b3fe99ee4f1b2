SPECIFICATION Spec
CONSTANTS
  h1 = h1 h2 = h2 bad = bad p1 = p1 p2 = p2
  Host = {h1, h2, bad}
  BadHost = {bad}
  Path = {p1, p2}
  InitConfig <- EmptyConfig
  Inputs <- Refreshes
INVARIANTS
  TypeOK
PROPERTIES
  DelLeavesNoBarren
  AddIsUnion
  DelOnlyRemoves
