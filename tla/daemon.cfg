\* Any two operations of the daemon or of the permission store fail.
SPECIFICATION FairSpec
CONSTANTS
  sys = sys
  ven = ven
  a = a
  b = b
  Bundles = {ven, a}
  Versions = {1, 2}
  AppIds = {"dev"}
  Home <- MCHome
  Faults = {"daemon", "reject"}
  BaseSysUid = 100
  BaseSysVenUid = 1000
  MaxSysVenUid = 9999
  BaseAppUid = 10000
  MaxRequests = 2
  MaxRestarts = 0
  MaxFailures = 2
  MaxFaults = 2
INVARIANTS
  AckedVersion
PROPERTIES
  Answered
\* The service rests when the requests of the instance are used up.
CHECK_DEADLOCK FALSE
