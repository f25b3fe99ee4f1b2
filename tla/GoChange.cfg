SPECIFICATION Spec
SYMMETRY Symmetry
VIEW View
CONSTANTS
  r1 = r1 r2 = r2 s1 = s1 s2 = s2
  a1 = a1 a2 = a2 f1 = f1 f2 = f2 p1 = p1 p2 = p2
  Main = Main Signals = Signals Nobody = Nobody
  Req = {r1, r2}
  Ids = {s1}
  Addr = {a1, a2}
  CertFile = {f2}
  BrokenCert = {f2}
  GlobalCert = f2
  Route = {p1, p2}
  InitCfg <- OnAGlob
  Inputs <- Changing
  Srvr0Addr = a2
  Faults = TRUE
  Interrupts = TRUE
INVARIANTS
  WgExact
  RoutesPublished
  ConfigStaysValid
