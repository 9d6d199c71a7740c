SPECIFICATION FairSpec
CONSTANTS
  Packages = {"ui", "audio", "wheel", "bigwin"}
  MaxJobs = 2
  Leases = {l1, l2, l3}
  l1 = l1
  l2 = l2
  l3 = l3
  Attempts = {a1, a2, a3, a4, a5, a6}
  Slots = 1
  MaxAttempts = 2
  Scenarios <- All
INVARIANTS
  LeasesRight
  NothingLeaks
PROPERTIES
  LeasesEnd
CHECK_DEADLOCK FALSE
