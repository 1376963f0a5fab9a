\* Nothing fails; the device is rebooted between requests, perhaps with newer
\* pre-installed haps.
SPECIFICATION Spec
CONSTANTS
  sys = sys
  ven = ven
  a = a
  b = b
  Bundles = {sys, ven, a, b}
  Versions = {1, 2}
  AppIds = {"dev"}
  Home <- MCHome
  Faults = {"reboot"}
  BaseSysUid = 100
  BaseSysVenUid = 1000
  MaxSysVenUid = 9999
  BaseAppUid = 10000
  MaxRequests = 3
  MaxRestarts = 2
  MaxFailures = 0
  MaxFaults = 2
INVARIANTS
  UidReserved
  DataOwner
  DiskAgrees
  StaysUninstalled
PROPERTIES
  ImplementsStore
\* The service rests when the requests of the instance are used up.
CHECK_DEADLOCK FALSE
