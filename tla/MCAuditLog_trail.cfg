SPECIFICATION Spec
CONSTANTS
  Events = {e1, e2, e3}
  MAC <- IdealMAC
  Genesis <- IdealGenesis
  JunkCt = JunkCt
  JunkMac <- IdealJunkMac
SYMMETRY Symmetry
INVARIANTS
  TypeOK
  TrailVerifies
  VerifiedIsGenuine
CHECK_DEADLOCK FALSE
