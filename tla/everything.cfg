\* Every fault of the model together.
SPECIFICATION Spec
CONSTANTS
  sys = sys
  ven = ven
  a = a
  b = b
  Bundles = {sys, ven, a}
  Versions = {1, 2}
  AppIds = {"dev"}
  Home <- MCHome
  Faults = {"reboot", "crash", "power", "reject", "daemon"}
  BaseSysUid = 100
  BaseSysVenUid = 1000
  MaxSysVenUid = 9999
  BaseAppUid = 10000
  MaxRequests = 2
  MaxRestarts = 2
  MaxFailures = 2
  MaxFaults = 2
INVARIANTS
  TypeOK
  SystemAppsPresent
  AckedSurvives
  ThirdStaysUninstalled
\* The service rests when the requests of the instance are used up.
CHECK_DEADLOCK FALSE
