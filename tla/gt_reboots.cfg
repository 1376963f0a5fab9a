\* No fault: reboots, updates of the image, refused requests.
SPECIFICATION FairSpec
CONSTANTS
  Bundles <- VendorAndTwo
  Home <- VendorHomes
  Versions = {1, 2}
  MaxThird = 1
  CountModulus = 10
  Faults = {"reboot", "reject"}
  MaxRequests = 5
  MaxRestarts = 2
  MaxFailures = 0
INVARIANTS
  LimitKept
  AckedSurvives
  StaysRemoved
PROPERTIES
  DataKept
  Answered
\* The service rests when the requests of the instance are used up.
CHECK_DEADLOCK FALSE
