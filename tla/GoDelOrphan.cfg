SPECIFICATION Spec
SYMMETRY Symmetry
VIEW View
CONSTANTS
  r1 = r1 r2 = r2 s1 = s1 s2 = s2
  a1 = a1 a2 = a2 f1 = f1 f2 = f2 p1 = p1 p2 = p2
  Main = Main Signals = Signals Nobody = Nobody
  Req = {r1}
  Ids = {s1, s2}
  Addr = {a1, a2}
  CertFile = {}
  BrokenCert = {}
  GlobalCert = "plain"
  Route = {p1, p2}
  InitCfg <- OnB
  Inputs <- AddDel
  Srvr0Addr = Nobody
  Faults = FALSE
  Interrupts = FALSE
INVARIANTS
  NoOrphanServer
