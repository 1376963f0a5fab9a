\* Nothing fails.
SPECIFICATION Spec
CONSTANTS
  sys = sys
  ven = ven
  a = a
  b = b
  Bundles = {a, b}
  Versions = {1, 2}
  AppIds = {"dev"}
  Home <- MCHome
  Faults = {}
  BaseSysUid = 100
  BaseSysVenUid = 1000
  MaxSysVenUid = 9999
  BaseAppUid = 10000
  MaxRequests = 3
  MaxRestarts = 0
  MaxFailures = 0
  MaxFaults = 2
PROPERTIES
  KeepDataHonoured
\* The service rests when the requests of the instance are used up.
CHECK_DEADLOCK FALSE
