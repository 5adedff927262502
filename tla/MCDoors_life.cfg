SPECIFICATION FairSpec
CONSTANTS
  Names = {d1}
  Installers = {s1, s2}
  Boot = Boot
  Ports = {p1, p2}
  Sups = {x1, x2}
  NoName = NoName
  NoPort = NoPort
  NoSup = NoSup
INVARIANTS
  TypeOK
  OneSupervisor
  ShownIsRecorded
  BootSettles
PROPERTIES
  StopEndsRelaunching
  KeptAlive
