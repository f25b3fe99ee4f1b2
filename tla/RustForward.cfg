SPECIFICATION FairSpec
CONSTANTS
  c1 = c1 r1 = r1 r2 = r2 l1 = l1 l2 = l2 l3 = l3 p1 = p1 h1 = h1 h2 = h2
  Nobody = Nobody
  Conn = {c1}
  Req = {r1, r2}
  Link = {l1, l2, l3}
  Path = {p1}
  Host = {h1, h2}
  Tables <- Refreshes
  InitTable <- SecondTls
  MaxMs = 1
  HalfWord = 2
  AverageAt = 1
INVARIANTS
  OneSender
  LinkedWhereRouted
  FailsOver
  CountBounded
PROPERTIES
  RequestsEnd
