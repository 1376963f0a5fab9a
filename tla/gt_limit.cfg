\* No fault: a third-party bundle is updated and removed.
SPECIFICATION Spec
CONSTANTS
  Bundles <- VendorAndTwo
  Home <- VendorHomes
  Versions = {1, 2}
  MaxThird = 1
  CountModulus = 10
  Faults = {}
  MaxRequests = 4
  MaxRestarts = 0
  MaxFailures = 0
PROPERTIES
  RefusedOnlyWhenFull
CHECK_DEADLOCK FALSE
