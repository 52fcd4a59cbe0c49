\* Two services, of which one does not come up by a restart.
SPECIFICATION FairSpec
CONSTANTS
  Services = {s1, s2}
  Unstartable = {s2}
  SlowestStart = 4
  MaxOutages = 1
  MaxFaults = 1
  MaxCrashes = 1
INVARIANTS
  TypeOK
  RestartsBounded
  Patient
PROPERTIES
  LeftAlone
  OutageEnds
  SlowStartEnds
