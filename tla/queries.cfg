\* Installs, failing installs, reboots and failing allocations under queries.
SPECIFICATION Spec
CONSTANTS
  Clients = {c1}
  Bundles = {"a", "b"}
  SystemBundles = {"a"}
  Profiles <- TheProfiles
  Questions <- TheQuestions
  Uids <- TheUids
  Disks <- TheDisks
  NoUid = "noUid"
  DeviceTypeSize = 2
  MetaDataSize = 2
  DefaultDevice = "default"
  SystemCaps = {}
  IpcLimit = 2
  MaxChanges = 2
INVARIANTS
  TypeOK
  ListedOnce
  CrashExplained
  InstalledAnswerable
  ListMatchesDisk
PROPERTIES
  ImplementsCatalog
CHECK_DEADLOCK TRUE
