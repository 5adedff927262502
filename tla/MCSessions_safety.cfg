SPECIFICATION Spec
CONSTANTS
  c1 = c1
  c2 = c2
  c3 = c3
  Callers = {c1, c2, c3}
  Handles = {alice, bob}
  MaxNodes = 2
  IdleEnabled = TRUE
  Lapses = {}
  NoCaller = NoCaller
  NoHandle = NoHandle
SYMMETRY Symmetry
INVARIANTS
  TypeOK
  NodesExclusive
  RosterExact
  PresenceSound
  DisplacedIsBeingClosed
PROPERTIES
  ImplementsLeases
CHECK_DEADLOCK FALSE
