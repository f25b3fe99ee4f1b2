SPECIFICATION Spec
CONSTANTS
  c1 = c1 r1 = r1 r2 = r2 p1 = p1 u1 = u1 u2 = u2 u3 = u3
  k1 = k1 k2 = k2 k3 = k3
  Nobody = Nobody
  Conn = {c1}
  Req = {r1, r2}
  Path = {p1}
  Url = {u1, u2, u3}
  Array = {k1, k2, k3}
  Cap = 3
  Updates <- AllUpdates
  MaxUpdates = 3
  InitTable <- ThreeUrls
SYMMETRY Symmetric
INVARIANTS
  TypeOK
  DialsListed
  FailsOver
  PublishedIsWhole
  OneBackend
