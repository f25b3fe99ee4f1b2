SPECIFICATION Spec
SYMMETRY Symmetry
VIEW View
CONSTANTS
  i1 = i1 i2 = i2 i3 = i3 c1 = c1 c2 = c2
  a1 = a1 a2 = a2 p1 = p1 p2 = p2
  Nobody = Nobody
  Conn = {c1, c2}
  Ids = {i1, i2}
  Addr = {a1}
  Routes <- MCRoutes
  NoRoutes = {}
  AddRoutes <- Union
  DelRoutes <- Minus
  InitCfg <- OnA
  InitParses = {TRUE, FALSE}
  Inputs <- All
  Extra = TRUE
  Faults = TRUE
  Interrupts = TRUE
INVARIANTS
  TypeOK
  StatusTruthful
  RoutesPublished
PROPERTIES
  ExitsGracefully
  NoForeignRemoval
