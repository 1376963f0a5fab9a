\* Everything: power losses, failing file operations, early requests.
SPECIFICATION Spec
CONSTANTS
  Bundles <- OneOfEach
  Home <- OneOfEachHomes
  Versions = {1, 2}
  MaxThird = 1
  CountModulus = 10
  Faults = {"reboot", "power", "reject", "early", "reinstall", "io"}
  MaxRequests = 2
  MaxRestarts = 3
  MaxFailures = 1
INVARIANTS
  TypeOK
  SystemAppsBack
  AckedOnDisk
  ThirdStaysRemoved
\* The service rests when the requests of the instance are used up.
CHECK_DEADLOCK FALSE
